---- MODULE Spec2Model ----
(***************************************************************************)
(* Model of the relay registry of go-ports (type Forwarder): the two maps  *)
(* of active listeners, the mutex that guards them, the Start/Stop/Is-     *)
(* Running operations, the accept / receive goroutines they launch, and    *)
(* the connection tasks of a TCP relay with their two copy goroutines.     *)
(***************************************************************************)
EXTENDS Integers, Sequences, FiniteSets, TLC

\* ------------------------------------------------------------------ bounds
NumCallers == 2        \* concurrent HTTP handler goroutines calling the Forwarder
MaxListeners == 2      \* listeners / sockets alive at the same time
MaxTasks == 1          \* connection tasks alive at the same time
MaxSend == 2           \* bytes the clients of a relay write in all
NumConns == 2          \* connections relayed at the same time
MaxReplies == 2        \* reply tasks a datagram relay has started
MaxDatagrams == 2      \* datagrams the clients of a datagram relay send in all
MaxRules == 2          \* rules in the rule list
MaxSeq == 3            \* largest sequence number handed out
MaxTemplates == 2      \* templates in the template list
MaxTemplateRules == 3  \* rule IDs in one template
MaxIDs == 2            \* rule IDs in one request

\* ------------------------------------------------------------------ inputs
Callers == 1..NumCallers
ListenAddrs == {"", "0.0.0.0"}
ListenPorts == {"80"}
TargetAddrs == {"10.0.0.1", "10.0.0.2"}
TargetPorts == {"9000"}

VARIABLES
  tcpListeners,   \* Forwarder.tcpListeners: key -> listener id
  udpListeners,   \* Forwarder.udpListeners: key -> socket id
  mu,             \* Forwarder.mu: 0 when free, else the caller holding it
  listeners,      \* the listeners / sockets bound and still referenced, by id
  loop,           \* position of the goroutine launched for each listener
  tasks,          \* the connection / reply tasks, each with its listener
  pc,             \* position of each caller inside its current call
  op,             \* the call each caller is executing, with its arguments
  res,            \* the value the current call is about to return
  lid,            \* the listener the current call created or looked up
  io,             \* the calls of the net package the current call has made
  pre,            \* registry and listeners as seen when the call took the lock
  rules,          \* main.go: var rules []Rule
  templates,      \* main.go: var templates []Template
  file,           \* db/data.json: the AppData last written, with .rules and .templates
  appData,        \* the AppData each handler has loaded inside SaveRules / SaveTemplates
  req             \* the request each HTTP handler is serving, with its position

\* the state of the rule and template handlers
app == <<rules, templates, file, appData, req>>

vars == <<tcpListeners, udpListeners, mu, listeners, loop, tasks,
          pc, op, res, lid, io, pre, app>>

\* fmt.Sprintf("tcp:%s:%s", listenAddr, listenPort)
TCPKey(listenAddr, listenPort) == "tcp:" \o listenAddr \o ":" \o listenPort

\* fmt.Sprintf("udp:%s:%s", listenAddr, listenPort)
UDPKey(listenAddr, listenPort) == "udp:" \o listenAddr \o ":" \o listenPort

NoOp == [name |-> "none", listenAddr |-> "", listenPort |-> "",
         targetAddr |-> "", targetPort |-> ""]
NoPre == [tcp |-> << >>, udp |-> << >>, listeners |-> << >>]

\* no request is being served
NoRequest == [api |-> "none", at |-> "idle", name |-> "", ids |-> << >>, arg |-> << >>]

\* no AppData loaded
NoData == [rules |-> << >>, templates |-> << >>, loaded |-> FALSE]

\* main(): no data file yet, LoadRules and LoadTemplates return empty lists
AppInit ==
  /\ rules = << >>
  /\ templates = << >>
  /\ file = [rules |-> << >>, templates |-> << >>]
  /\ appData = [p \in Callers |-> NoData]
  /\ req = [p \in Callers |-> NoRequest]

\* m[k] = v
MapPut(m, k, v) == [x \in (DOMAIN m) \cup {k} |-> IF x = k THEN v ELSE m[x]]

\* a delete that leaves the entry in the map
MapDeleteKeeps(m, k) == m

\* delete(m, k)
MapDelete(m, k) == [x \in (DOMAIN m) \ {k} |-> m[x]]
Range(m) == {m[x] : x \in DOMAIN m}

\* NewForwarder: two empty maps, an unlocked mutex
Init ==
  /\ tcpListeners = << >>
  /\ udpListeners = << >>
  /\ mu = 0
  /\ listeners = << >>
  /\ loop = << >>
  /\ tasks = << >>
  /\ pc = [p \in Callers |-> "idle"]
  /\ op = [p \in Callers |-> NoOp]
  /\ res = [p \in Callers |-> "none"]
  /\ lid = [p \in Callers |-> 0]
  /\ io = [p \in Callers |-> {}]
  /\ pre = [p \in Callers |-> NoPre]
  /\ AppInit

\* ------------------------------------------------------------ helpers
Listener(proto, key, o) ==
  [proto |-> proto, key |-> key,
   targetAddr |-> o.targetAddr, targetPort |-> o.targetPort, open |-> TRUE,
   inbox |-> << >>,     \* datagrams that have arrived at the socket, unread
   out |-> << >>,       \* datagrams written through the socket
   nsent |-> 0,         \* number of datagrams the clients have sent to it
   echoed |-> 0]        \* number of datagrams the target has answered

SetOpen(ls, l, b) == [ls EXCEPT ![l].open = b]

Open == {l \in DOMAIN listeners : listeners[l].open}

\* a goroutine position: pc is where it stands, err why it left its loop
NoDatagram == [from |-> << >>, payload |-> << >>]
At(where, why) == [pc |-> where, err |-> why, dgram |-> NoDatagram]

\* the identity of a freshly allocated listener
NewId == CHOOSE i \in 1..(MaxListeners + 1) :
           /\ i \notin DOMAIN listeners
           /\ \A j \in 1..(i - 1) : j \in DOMAIN listeners

\* a closed listener that neither map, no goroutine and no caller refers to
\* any more is unreachable; lp, ls and ts are the loops, the callers'
\* listeners and the tasks after the step
Unreachable(l, lp, ls, ts) ==
  /\ ~listeners[l].open
  /\ l \notin Range(tcpListeners) \cup Range(udpListeners)
  /\ lp[l].pc = "exited"
  /\ \A p \in Callers : ls[p] # l
  /\ \A t \in DOMAIN ts : ts[t].of # l

Collect(lp, ls, ts) ==
  LET keep == {l \in DOMAIN listeners : ~Unreachable(l, lp, ls, ts)} IN
  /\ listeners' = [l \in keep |-> listeners[l]]
  /\ loop' = [l \in keep |-> lp[l]]

\* what binding and closing make of a listener / socket
Binding(x) ==
  [proto |-> x.proto, key |-> x.key, targetAddr |-> x.targetAddr,
   targetPort |-> x.targetPort, open |-> x.open]

Snapshot ==
  [tcp |-> tcpListeners, udp |-> udpListeners,
   listeners |-> [l \in DOMAIN listeners |-> Binding(listeners[l])]]

\* the outcomes of an I/O call of the net package
IOResults == {"ok", "err"}

\* how the net package reads the port of "host:port": a decimal number has
\* to be in 0..65535 (0 asks for any free port), another string has to be a
\* service name the system knows
PortNumber == ("80" :> 80) @@ ("9000" :> 9000) @@ ("0" :> 0) @@ ("65536" :> 65536)
ServiceNames == {"http"}
PortAccepted(port) ==
  IF port \in DOMAIN PortNumber
  THEN PortNumber[port] \in 0..65535
  ELSE port \in ServiceNames

\* the outcomes of net.Listen / net.ResolveUDPAddr for an address with this port
EndpointResults(port) == IF PortAccepted(port) THEN IOResults ELSE {"err"}

\* net.Listener.Close / net.UDPConn.Close: the descriptor is released
\* whether or not an error is reported; closing twice reports an error
CloseResults(l) == IF listeners[l].open THEN {"ok", "err"} ELSE {"err"}

\* ------------------------------------------------------- caller entry
\* the arguments an HTTP handler passes to an operation of the Forwarder
StartArgs(n) ==
  {[name |-> n, listenAddr |-> la, listenPort |-> lp,
    targetAddr |-> ta, targetPort |-> tp] :
     la \in ListenAddrs, lp \in ListenPorts, ta \in TargetAddrs, tp \in TargetPorts}

KeyArgs(n) ==
  {[name |-> n, listenAddr |-> la, listenPort |-> lp,
    targetAddr |-> "", targetPort |-> ""] :
     la \in ListenAddrs, lp \in ListenPorts}

\* a lock that does not exclude: the call enters although another holds mu
LockNoExclusion(p, o) ==
  /\ pc[p] = "idle"
  /\ mu' = p
  /\ op' = [op EXCEPT ![p] = o]
  /\ pre' = [pre EXCEPT ![p] = Snapshot]
  /\ UNCHANGED app

\* f.mu.Lock() at the head of every operation
Lock(p, o) ==
  /\ pc[p] = "idle"
  /\ mu = 0
  /\ mu' = p
  /\ op' = [op EXCEPT ![p] = o]
  /\ pre' = [pre EXCEPT ![p] = Snapshot]
  /\ UNCHANGED app

\* return, running the deferred f.mu.Unlock()
Unlock(p) ==
  /\ pc[p] = "ret"
  /\ mu' = 0
  /\ pc' = [pc EXCEPT ![p] = "idle"]
  /\ op' = [op EXCEPT ![p] = NoOp]
  /\ res' = [res EXCEPT ![p] = "none"]
  /\ lid' = [lid EXCEPT ![p] = 0]
  /\ io' = [io EXCEPT ![p] = {}]
  /\ pre' = [pre EXCEPT ![p] = NoPre]
  /\ UNCHANGED app
  /\ Collect(loop, lid', tasks)
  /\ UNCHANGED <<tcpListeners, udpListeners, tasks>>

\* the call has its result and is about to return
Finish(p, r) ==
  /\ res' = [res EXCEPT ![p] = r]
  /\ pc' = [pc EXCEPT ![p] = "ret"]

\* the call enters a call of the net package
Enter(p, call) ==
  /\ pc' = [pc EXCEPT ![p] = call]
  /\ UNCHANGED res

\* the call of the net package returns
Leave(p, call) ==
  /\ pc[p] = call
  /\ io' = [io EXCEPT ![p] = @ \cup {call}]

\* ---------------------------------------------------- StartTCPForward
\* a Start that never finds its key
StartTCPExistsNever(key) == FALSE

StartTCPExists(key) == key \in DOMAIN tcpListeners

\* a duplicate Start that drops the entry it found before it reports the error
StartTCPCheckDropsOld(p) ==
  \E o \in StartArgs("StartTCPForward") :
    /\ Lock(p, o)
    /\ IF StartTCPExists(TCPKey(o.listenAddr, o.listenPort))
       THEN /\ Finish(p, "AlreadyRunning")
            /\ tcpListeners' = MapDelete(tcpListeners, TCPKey(o.listenAddr, o.listenPort))
       ELSE /\ Enter(p, "listen")
            /\ UNCHANGED tcpListeners
    /\ UNCHANGED <<udpListeners, listeners, loop, tasks, lid, io>>

\* a duplicate Start that points the running session at its own target
StartTCPCheckRetargets(p) ==
  \E o \in StartArgs("StartTCPForward") :
    /\ Lock(p, o)
    /\ IF StartTCPExists(TCPKey(o.listenAddr, o.listenPort))
       THEN /\ Finish(p, "AlreadyRunning")
            /\ listeners' =
                 [listeners EXCEPT
                    ![tcpListeners[TCPKey(o.listenAddr, o.listenPort)]] =
                      [@ EXCEPT !.targetAddr = o.targetAddr,
                                !.targetPort = o.targetPort]]
       ELSE /\ Enter(p, "listen")
            /\ UNCHANGED listeners
    /\ UNCHANGED <<tcpListeners, udpListeners, loop, tasks, lid, io>>

\* f.mu.Lock(); if _, exists := f.tcpListeners[key]; exists { return error }
StartTCPCheck(p) ==
  \E o \in StartArgs("StartTCPForward") :
    /\ Lock(p, o)
    /\ IF StartTCPExists(TCPKey(o.listenAddr, o.listenPort))
       THEN Finish(p, "AlreadyRunning")
       ELSE Enter(p, "listen")
    /\ UNCHANGED <<tcpListeners, udpListeners, listeners, loop, tasks, lid, io>>

\* a Start that saves the listener and launches the loop before it looks at
\* the error of net.Listen
StartTCPListenSavesFirst(p) ==
  /\ op[p].name = "StartTCPForward"
  /\ Leave(p, "listen")
  /\ LET key == TCPKey(op[p].listenAddr, op[p].listenPort) IN
     \E r \in EndpointResults(op[p].listenPort) :
       /\ Cardinality(DOMAIN listeners) < MaxListeners
       /\ listeners' = MapPut(listeners, NewId, Listener("tcp", key, op[p]))
       /\ tcpListeners' = MapPut(tcpListeners, key, NewId)
       /\ loop' = MapPut(loop, NewId, At("accept", "none"))
       /\ lid' = [lid EXCEPT ![p] = NewId]
       /\ Finish(p, IF r = "ok" THEN "ok" ELSE "BindFailed")
  /\ UNCHANGED <<udpListeners, mu, tasks, op, pre, app>>

\* net.Listen("tcp", addr) returns: on success the listener is saved and
\* go f.handleTCPForward is launched
StartTCPListen(p) ==
  /\ op[p].name = "StartTCPForward"
  /\ Leave(p, "listen")
  /\ LET key == TCPKey(op[p].listenAddr, op[p].listenPort) IN
     \E r \in EndpointResults(op[p].listenPort) :
       IF r = "ok"
       THEN /\ Cardinality(DOMAIN listeners) < MaxListeners
            /\ listeners' = MapPut(listeners, NewId, Listener("tcp", key, op[p]))
            /\ tcpListeners' = MapPut(tcpListeners, key, NewId)
            /\ loop' = MapPut(loop, NewId, At("accept", "none"))
            /\ lid' = [lid EXCEPT ![p] = NewId]
            /\ Finish(p, "ok")
       ELSE /\ Finish(p, "BindFailed")
            /\ UNCHANGED <<tcpListeners, listeners, loop, lid>>
  /\ UNCHANGED <<udpListeners, mu, tasks, op, pre, app>>

StartTCPForward(p) == StartTCPCheck(p) \/ StartTCPListen(p)

\* ----------------------------------------------------- StopTCPForward
\* a Stop that empties the map when it does not find its key
StopTCPLookupResets(p) ==
  \E o \in KeyArgs("StopTCPForward") :
    LET key == TCPKey(o.listenAddr, o.listenPort) IN
    /\ Lock(p, o)
    /\ IF key \in DOMAIN tcpListeners
       THEN /\ lid' = [lid EXCEPT ![p] = tcpListeners[key]]
            /\ Enter(p, "close")
            /\ UNCHANGED tcpListeners
       ELSE /\ Finish(p, "NotRunning")
            /\ tcpListeners' = << >>
            /\ UNCHANGED lid
    /\ UNCHANGED <<udpListeners, listeners, loop, tasks, io>>

\* f.mu.Lock(); listener, exists := f.tcpListeners[key]; if !exists { return error }
StopTCPLookup(p) ==
  \E o \in KeyArgs("StopTCPForward") :
    LET key == TCPKey(o.listenAddr, o.listenPort) IN
    /\ Lock(p, o)
    /\ IF key \in DOMAIN tcpListeners
       THEN /\ lid' = [lid EXCEPT ![p] = tcpListeners[key]]
            /\ Enter(p, "close")
       ELSE /\ Finish(p, "NotRunning")
            /\ UNCHANGED lid
    /\ UNCHANGED <<tcpListeners, udpListeners, listeners, loop, tasks, io>>

\* a Stop that also closes the connections its listener has accepted
StopTCPCloseDropsConns(p) ==
  /\ op[p].name = "StopTCPForward"
  /\ Leave(p, "close")
  /\ LET key == TCPKey(op[p].listenAddr, op[p].listenPort) IN
     \E r \in CloseResults(lid[p]) :
       /\ listeners' = SetOpen(listeners, lid[p], FALSE)
       /\ IF r = "ok"
          THEN /\ tcpListeners' = MapDelete(tcpListeners, key)
               /\ Finish(p, "ok")
          ELSE /\ Finish(p, "CloseFailed")
               /\ UNCHANGED tcpListeners
  /\ tasks' = [t \in DOMAIN tasks |->
                IF tasks[t].of = lid[p]
                THEN [tasks[t] EXCEPT !.st = "closed"] ELSE tasks[t]]
  /\ UNCHANGED <<udpListeners, mu, loop, op, lid, pre, app>>

\* (*listener).Close() returns: an error is returned at once, otherwise
\* delete(f.tcpListeners, key)
StopTCPClose(p) ==
  /\ op[p].name = "StopTCPForward"
  /\ Leave(p, "close")
  /\ LET key == TCPKey(op[p].listenAddr, op[p].listenPort) IN
     \E r \in CloseResults(lid[p]) :
       /\ listeners' = SetOpen(listeners, lid[p], FALSE)
       /\ IF r = "ok"
          THEN /\ tcpListeners' = MapDelete(tcpListeners, key)
               /\ Finish(p, "ok")
          ELSE /\ Finish(p, "CloseFailed")
               /\ UNCHANGED tcpListeners
  /\ UNCHANGED <<udpListeners, mu, loop, tasks, op, lid, pre, app>>

StopTCPForward(p) == StopTCPLookup(p) \/ StopTCPClose(p)

\* ---------------------------------------------------- StartUDPForward
StartUDPExists(key) == key \in DOMAIN udpListeners

\* f.mu.Lock(); if _, exists := f.udpListeners[key]; exists { return error }
StartUDPCheck(p) ==
  \E o \in StartArgs("StartUDPForward") :
    /\ Lock(p, o)
    /\ IF StartUDPExists(UDPKey(o.listenAddr, o.listenPort))
       THEN Finish(p, "AlreadyRunning")
       ELSE Enter(p, "resolve")
    /\ UNCHANGED <<tcpListeners, udpListeners, listeners, loop, tasks, lid, io>>

\* net.ResolveUDPAddr of the listen address returns
StartUDPResolve(p) ==
  /\ op[p].name = "StartUDPForward"
  /\ Leave(p, "resolve")
  /\ \E r \in EndpointResults(op[p].listenPort) :
       IF r = "ok" THEN Enter(p, "listen") ELSE Finish(p, "BindFailed")
  /\ UNCHANGED <<tcpListeners, udpListeners, mu, listeners, loop,
                 tasks, op, lid, pre, app>>

\* net.ListenUDP("udp", addr) returns: on success the socket is saved and
\* go f.handleUDPForward is launched
StartUDPListen(p) ==
  /\ op[p].name = "StartUDPForward"
  /\ Leave(p, "listen")
  /\ LET key == UDPKey(op[p].listenAddr, op[p].listenPort) IN
     \E r \in IOResults :
       IF r = "ok"
       THEN /\ Cardinality(DOMAIN listeners) < MaxListeners
            /\ listeners' = MapPut(listeners, NewId, Listener("udp", key, op[p]))
            /\ udpListeners' = MapPut(udpListeners, key, NewId)
            /\ loop' = MapPut(loop, NewId, At("resolve", "none"))
            /\ lid' = [lid EXCEPT ![p] = NewId]
            /\ Finish(p, "ok")
       ELSE /\ Finish(p, "BindFailed")
            /\ UNCHANGED <<udpListeners, listeners, loop, lid>>
  /\ UNCHANGED <<tcpListeners, mu, tasks, op, pre, app>>

StartUDPForward(p) == StartUDPCheck(p) \/ StartUDPResolve(p) \/ StartUDPListen(p)

\* ----------------------------------------------------- StopUDPForward
\* f.mu.Lock(); conn, exists := f.udpListeners[key]; if !exists { return error }
\* a Stop that finds only sessions whose receive loop is still there
StopUDPLookupNeedsLoop(p) ==
  \E o \in KeyArgs("StopUDPForward") :
    LET key == UDPKey(o.listenAddr, o.listenPort) IN
    /\ Lock(p, o)
    /\ IF key \in DOMAIN udpListeners /\ loop[udpListeners[key]].pc # "exited"
       THEN /\ lid' = [lid EXCEPT ![p] = udpListeners[key]]
            /\ Enter(p, "close")
       ELSE /\ Finish(p, "NotRunning")
            /\ UNCHANGED lid
    /\ UNCHANGED <<tcpListeners, udpListeners, listeners, loop, tasks, io>>

StopUDPLookup(p) ==
  \E o \in KeyArgs("StopUDPForward") :
    LET key == UDPKey(o.listenAddr, o.listenPort) IN
    /\ Lock(p, o)
    /\ IF key \in DOMAIN udpListeners
       THEN /\ lid' = [lid EXCEPT ![p] = udpListeners[key]]
            /\ Enter(p, "close")
       ELSE /\ Finish(p, "NotRunning")
            /\ UNCHANGED lid
    /\ UNCHANGED <<tcpListeners, udpListeners, listeners, loop, tasks, io>>

\* conn.Close() returns: an error is returned at once, otherwise
\* delete(f.udpListeners, key)
StopUDPClose(p) ==
  /\ op[p].name = "StopUDPForward"
  /\ Leave(p, "close")
  /\ LET key == UDPKey(op[p].listenAddr, op[p].listenPort) IN
     \E r \in CloseResults(lid[p]) :
       /\ listeners' = SetOpen(listeners, lid[p], FALSE)
       /\ IF r = "ok"
          THEN /\ udpListeners' = MapDelete(udpListeners, key)
               /\ Finish(p, "ok")
          ELSE /\ Finish(p, "CloseFailed")
               /\ UNCHANGED udpListeners
  /\ UNCHANGED <<tcpListeners, mu, loop, tasks, op, lid, pre, app>>

StopUDPForward(p) == StopUDPLookup(p) \/ StopUDPClose(p)

\* ------------------------------------------ IsTCPRunning, IsUDPRunning
\* _, exists := f.tcpListeners[key]
\* the lookup answers for the listener, not for the key
TCPRunningIfOpen(listenAddr, listenPort) ==
  /\ TCPKey(listenAddr, listenPort) \in DOMAIN tcpListeners
  /\ listeners[tcpListeners[TCPKey(listenAddr, listenPort)]].open

TCPRunning(listenAddr, listenPort) ==
  TCPKey(listenAddr, listenPort) \in DOMAIN tcpListeners

\* the lookup also finds the TCP session of the same listen address and port
UDPRunningAnyProtocol(listenAddr, listenPort) ==
  \/ UDPKey(listenAddr, listenPort) \in DOMAIN udpListeners
  \/ TCPKey(listenAddr, listenPort) \in DOMAIN tcpListeners

\* _, exists := f.udpListeners[key]
UDPRunning(listenAddr, listenPort) ==
  UDPKey(listenAddr, listenPort) \in DOMAIN udpListeners

IsTCPRunning(p) ==
  \E o \in KeyArgs("IsTCPRunning") :
    /\ Lock(p, o)
    /\ Finish(p, IF TCPRunning(o.listenAddr, o.listenPort) THEN "true" ELSE "false")
    /\ UNCHANGED <<tcpListeners, udpListeners, listeners, loop, tasks, lid, io>>

IsUDPRunning(p) ==
  \E o \in KeyArgs("IsUDPRunning") :
    /\ Lock(p, o)
    /\ Finish(p, IF UDPRunning(o.listenAddr, o.listenPort) THEN "true" ELSE "false")
    /\ UNCHANGED <<tcpListeners, udpListeners, listeners, loop, tasks, lid, io>>

\* ---------------------------------------------------- connection tasks
\* the task go func(conn) the accept loop of listener l starts for an
\* accepted connection, with what its two peers have sent and received
Conn(l) ==
  [of |-> l,
   \* target := fmt.Sprintf("%s:%s", targetAddr, targetPort)
   target |-> <<listeners[l].targetAddr, listeners[l].targetPort>>,
   st |-> "dial",       \* dial, pump (inside forwardData), closed (returned)
   a |-> "idle",        \* the goroutine copying src -> dst: read, write, done
   b |-> "idle",        \* the goroutine copying dst -> src: read, write, done
   abuf |-> << >>,      \* buf[:n] of the src -> dst goroutine
   bbuf |-> << >>,      \* buf[:n] of the dst -> src goroutine
   sent |-> 0,          \* number of bytes the client has written
   cs |-> << >>,        \* bytes of the client the relay has not read yet
   tr |-> << >>,        \* bytes written to the target connection
   echoed |-> 0,        \* number of bytes the target has written
   ts |-> << >>,        \* bytes of the target the relay has not read yet
   cr |-> << >>,        \* bytes written to the client connection
   cend |-> FALSE,      \* the client has closed or reset its connection
   tend |-> FALSE]      \* the target has closed or reset its connection

\* ---------------------------------------------------- handleTCPForward
\* an accept loop that takes the error of a closed listener for a temporary one
handleTCPForwardRetriesClosed(l) ==
  /\ listeners[l].proto = "tcp"
  /\ \/ \* listener.Accept() returns a connection: go func(conn)
        /\ loop[l].pc = "accept"
        /\ listeners[l].open
        /\ Len(tasks) < NumConns
        /\ tasks' = Append(tasks, Conn(l))
        /\ UNCHANGED <<listeners, loop>>
     \/ \* Accept returns an error, the one of a closed listener included
        /\ loop[l].pc = "accept"
        /\ loop' = [loop EXCEPT ![l] = At("temporary", "none")]
        /\ UNCHANGED <<listeners, tasks>>
     \/ \* continue
        /\ loop[l].pc = "temporary"
        /\ loop' = [loop EXCEPT ![l] = At("accept", "none")]
        /\ UNCHANGED <<listeners, tasks>>
     \/ \* Accept returns any other error: break
        /\ loop[l].pc = "accept"
        /\ listeners[l].open
        /\ Collect([loop EXCEPT ![l] =
                      At("exited", IF listeners[l].open THEN "error" ELSE "closed")],
                   lid, tasks)
        /\ UNCHANGED tasks
  /\ UNCHANGED <<tcpListeners, udpListeners, mu, pc, op, res, lid, io, pre, app>>

\* an accept loop that ends on a temporary error as well
handleTCPForwardBreaksOnTemporary(l) ==
  /\ listeners[l].proto = "tcp"
  /\ \/ \* listener.Accept() returns a connection: go func(conn)
        /\ loop[l].pc = "accept"
        /\ listeners[l].open
        /\ Len(tasks) < NumConns
        /\ tasks' = Append(tasks, Conn(l))
        /\ UNCHANGED <<listeners, loop>>
     \/ \* Accept returns an error with Temporary() true: log it
        /\ loop[l].pc = "accept"
        /\ listeners[l].open
        /\ loop' = [loop EXCEPT ![l] = At("temporary", "none")]
        /\ UNCHANGED <<listeners, tasks>>
     \/ \* break
        /\ loop[l].pc = "temporary"
        /\ Collect([loop EXCEPT ![l] = At("exited", "error")], lid, tasks)
        /\ UNCHANGED tasks
     \/ \* Accept returns any other error: break
        /\ loop[l].pc = "accept"
        /\ Collect([loop EXCEPT ![l] =
                      At("exited", IF listeners[l].open THEN "error" ELSE "closed")],
                   lid, tasks)
        /\ UNCHANGED tasks
  /\ UNCHANGED <<tcpListeners, udpListeners, mu, pc, op, res, lid, io, pre, app>>

\* the accept loop of listener l
handleTCPForward(l) ==
  /\ listeners[l].proto = "tcp"
  /\ \/ \* listener.Accept() returns a connection: go func(conn)
        /\ loop[l].pc = "accept"
        /\ listeners[l].open
        /\ Len(tasks) < NumConns
        /\ tasks' = Append(tasks, Conn(l))
        /\ UNCHANGED <<listeners, loop>>
     \/ \* Accept returns an error with Temporary() true: log it
        /\ loop[l].pc = "accept"
        /\ listeners[l].open
        /\ loop' = [loop EXCEPT ![l] = At("temporary", "none")]
        /\ UNCHANGED <<listeners, tasks>>
     \/ \* continue
        /\ loop[l].pc = "temporary"
        /\ loop' = [loop EXCEPT ![l] = At("accept", "none")]
        /\ UNCHANGED <<listeners, tasks>>
     \/ \* Accept returns any other error: break
        /\ loop[l].pc = "accept"
        /\ Collect([loop EXCEPT ![l] =
                      At("exited", IF listeners[l].open THEN "error" ELSE "closed")],
                   lid, tasks)
        /\ UNCHANGED tasks
  /\ UNCHANGED <<tcpListeners, udpListeners, mu, pc, op, res, lid, io, pre, app>>

\* ---------------------------------------------------- handleUDPForward
\* a relay that takes a datagram from the target for the answer to its
\* first request and starts the task with the client of that request
ReplyForOriginalClient(l, clientAddr) ==
  [of |-> l,
   target |-> <<listeners[l].targetAddr, listeners[l].targetPort>>,
   clientAddr |-> IF /\ clientAddr = <<listeners[l].targetAddr, listeners[l].targetPort>>
                     /\ tasks # << >>
                  THEN tasks[1].clientAddr ELSE clientAddr,
   st |-> "dial",
   inbox |-> << >>,
   rerr |-> FALSE,
   rbuf |-> << >>]

\* the task go func(clientAddr) the receive loop of socket l starts for a
\* datagram it has forwarded, with its transient socket
Reply(l, clientAddr) ==
  [of |-> l,
   \* target, err := net.ResolveUDPAddr("udp", targetAddr:targetPort)
   target |-> <<listeners[l].targetAddr, listeners[l].targetPort>>,
   clientAddr |-> clientAddr,
   st |-> "dial",       \* dial, read, write, done (returned)
   inbox |-> << >>,     \* datagrams that have arrived at targetConn, unread
   rerr |-> FALSE,      \* an error is pending on targetConn
   rbuf |-> << >>]      \* responseBuf[:n]

\* the target of the datagrams of socket l
TargetOf(l) == <<listeners[l].targetAddr, listeners[l].targetPort>>

\* a loop that sends the datagram back to where it came from
ForwardedToSender(l) ==
  [to |-> loop[l].dgram.from, payload |-> loop[l].dgram.payload]

\* what conn.WriteToUDP(buf[:n], target) writes through socket l
Forwarded(l) ==
  [to |-> TargetOf(l), payload |-> loop[l].dgram.payload]

\* a loop that logs the error of ReadFromUDP and reads again
ReadFailedRetries(l) == At("read", "none")

\* conn.ReadFromUDP returned an error: break, the loop is over
ReadFailed(l) ==
  At("exited", IF listeners[l].open THEN "error" ELSE "closed")

\* the receive loop of socket l
handleUDPForward(l) ==
  /\ listeners[l].proto = "udp"
  /\ \/ \* net.ResolveUDPAddr of the target succeeds
        /\ loop[l].pc = "resolve"
        /\ PortAccepted(listeners[l].targetPort)
        /\ loop' = [loop EXCEPT ![l] = At("read", "none")]
        /\ UNCHANGED <<listeners, tasks>>
     \/ \* net.ResolveUDPAddr of the target fails: return
        /\ loop[l].pc = "resolve"
        /\ Collect([loop EXCEPT ![l] = At("exited", "resolve")], lid, tasks)
        /\ UNCHANGED tasks
     \/ \* n, addr, err := conn.ReadFromUDP(buf) returns a datagram
        /\ loop[l].pc = "read"
        /\ listeners[l].open
        /\ listeners[l].inbox # << >>
        /\ Len(tasks) < MaxReplies
        /\ loop' = [loop EXCEPT ![l] =
                      [At("write", "none") EXCEPT !.dgram = Head(listeners[l].inbox)]]
        /\ listeners' = [listeners EXCEPT ![l].inbox = Tail(@)]
        /\ UNCHANGED tasks
     \/ \* conn.ReadFromUDP returns an error: break
        /\ loop[l].pc = "read"
        /\ Collect([loop EXCEPT ![l] = ReadFailed(l)], lid, tasks)
        /\ UNCHANGED tasks
     \/ \* conn.WriteToUDP(buf[:n], target) succeeds: go func(clientAddr)(addr)
        /\ loop[l].pc = "write"
        /\ listeners[l].open
        /\ loop' = [loop EXCEPT ![l] = At("read", "none")]
        /\ listeners' = [listeners EXCEPT ![l].out = Append(@, Forwarded(l))]
        /\ tasks' = Append(tasks, Reply(l, loop[l].dgram.from))
     \/ \* conn.WriteToUDP fails: continue
        /\ loop[l].pc = "write"
        /\ loop' = [loop EXCEPT ![l] = At("read", "none")]
        /\ UNCHANGED <<listeners, tasks>>
  /\ UNCHANGED <<tcpListeners, udpListeners, mu, pc, op, res, lid, io, pre, app>>

\* ------------------------------------------------- spawned goroutines
Remove(s, i) == SubSeq(s, 1, i - 1) \o SubSeq(s, i + 1, Len(s))

\* a connection task (go func(conn)) or a reply task (go func(clientAddr))
\* runs to its end
taskDone(t) ==
  /\ tasks' = Remove(tasks, t)
  /\ Collect(loop, lid, tasks')
  /\ UNCHANGED <<tcpListeners, udpListeners, mu, pc, op, res, lid, io, pre, app>>

\* ------------------------------------------- go func(conn), forwardData
\* whatever a step of a connection task leaves alone
ConnFrame ==
  UNCHANGED <<tcpListeners, udpListeners, mu, listeners, loop,
              pc, op, res, lid, io, pre, app>>

RECURSIVE TotalSent(_)
TotalSent(n) == IF n = 0 THEN 0 ELSE tasks[n].sent + TotalSent(n - 1)

\* one target connection that all the tasks of a relay share
TargetConnShared(t) == 1

\* the connection the src -> dst goroutine of task t writes to: targetConn
\* is a local variable of the task
TargetConnOf(t) == t

\* a task that closes the listener of its relay when it cannot reach the target
connDialFailureClosesListener(t) ==
  /\ tasks[t].st = "dial"
  /\ \/ /\ tasks' = [tasks EXCEPT ![t].st = "pump", ![t].a = "read", ![t].b = "read"]
        /\ UNCHANGED listeners
     \/ /\ tasks' = [tasks EXCEPT ![t].st = "closed"]
        /\ listeners' = SetOpen(listeners, tasks[t].of, FALSE)
  /\ UNCHANGED <<tcpListeners, udpListeners, mu, loop, pc, op, res, lid, io, pre, app>>

\* a task that dials the target of the session registered for its key now
connDialCurrentTarget(t) ==
  /\ tasks[t].st = "dial"
  /\ \/ tasks' = [tasks EXCEPT
                    ![t].st = "pump", ![t].a = "read", ![t].b = "read",
                    ![t].target =
                       IF listeners[tasks[t].of].key \in DOMAIN tcpListeners
                       THEN <<listeners[tcpListeners[listeners[tasks[t].of].key]].targetAddr,
                              listeners[tcpListeners[listeners[tasks[t].of].key]].targetPort>>
                       ELSE @]
     \/ tasks' = [tasks EXCEPT ![t].st = "closed"]
  /\ ConnFrame

\* targetConn, err := net.Dial("tcp", target)
connDial(t) ==
  /\ tasks[t].st = "dial"
  /\ \/ \* connected: defer targetConn.Close(); forwardData(conn, targetConn)
        tasks' = [tasks EXCEPT ![t].st = "pump", ![t].a = "read", ![t].b = "read"]
     \/ \* failed: log it and return, the deferred conn.Close() runs
        tasks' = [tasks EXCEPT ![t].st = "closed"]
  /\ ConnFrame

\* a copy goroutine that writes buf[:1] whatever Read returned
copyAWritesFirstByte(t) ==
  /\ tasks[t].st = "pump"
  /\ \/ \* src.Read returns n > 0 bytes
        /\ tasks[t].a = "read"
        /\ \E n \in 1..Len(tasks[t].cs) :
             tasks' = [tasks EXCEPT ![t].a = "write",
                                    ![t].abuf = SubSeq(tasks[t].cs, 1, n),
                                    ![t].cs = SubSeq(tasks[t].cs, n + 1, Len(tasks[t].cs))]
     \/ \* src.Read returns io.EOF or another error: break
        /\ tasks[t].a = "read"
        /\ tasks[t].cend
        /\ tasks' = [tasks EXCEPT ![t].a = "done"]
     \/ \* dst.Write(buf[:n]) succeeds
        /\ tasks[t].a = "write"
        /\ tasks' = [tasks EXCEPT ![t].a = "read",
                                   ![t].abuf = << >>,
                                   ![TargetConnOf(t)].tr = Append(@, tasks[t].abuf[1])]
     \/ \* dst.Write returns an error: break
        /\ tasks[t].a = "write"
        /\ tasks[t].tend
        /\ tasks' = [tasks EXCEPT ![t].a = "done", ![t].abuf = << >>]
  /\ ConnFrame

\* the first goroutine of forwardData: src.Read(buf), dst.Write(buf[:n])
copyA(t) ==
  /\ tasks[t].st = "pump"
  /\ \/ \* src.Read returns n > 0 bytes
        /\ tasks[t].a = "read"
        /\ \E n \in 1..Len(tasks[t].cs) :
             tasks' = [tasks EXCEPT ![t].a = "write",
                                    ![t].abuf = SubSeq(tasks[t].cs, 1, n),
                                    ![t].cs = SubSeq(tasks[t].cs, n + 1, Len(tasks[t].cs))]
     \/ \* src.Read returns io.EOF or another error: break
        /\ tasks[t].a = "read"
        /\ tasks[t].cend
        /\ tasks' = [tasks EXCEPT ![t].a = "done"]
     \/ \* dst.Write(buf[:n]) succeeds
        /\ tasks[t].a = "write"
        /\ tasks' = [tasks EXCEPT ![t].a = "read",
                                   ![t].abuf = << >>,
                                   ![TargetConnOf(t)].tr = @ \o tasks[t].abuf]
     \/ \* dst.Write returns an error: break
        /\ tasks[t].a = "write"
        /\ tasks[t].tend
        /\ tasks' = [tasks EXCEPT ![t].a = "done", ![t].abuf = << >>]
  /\ ConnFrame

\* the second goroutine of forwardData: dst.Read(buf), src.Write(buf[:n])
copyB(t) ==
  /\ tasks[t].st = "pump"
  /\ \/ \* dst.Read returns n > 0 bytes
        /\ tasks[t].b = "read"
        /\ \E n \in 1..Len(tasks[t].ts) :
             tasks' = [tasks EXCEPT ![t].b = "write",
                                    ![t].bbuf = SubSeq(tasks[t].ts, 1, n),
                                    ![t].ts = SubSeq(tasks[t].ts, n + 1, Len(tasks[t].ts))]
     \/ \* dst.Read returns io.EOF or another error: break
        /\ tasks[t].b = "read"
        /\ tasks[t].tend
        /\ tasks' = [tasks EXCEPT ![t].b = "done"]
     \/ \* src.Write(buf[:n]) succeeds
        /\ tasks[t].b = "write"
        /\ tasks' = [tasks EXCEPT ![t].b = "read",
                                   ![t].bbuf = << >>,
                                   ![t].cr = @ \o tasks[t].bbuf]
     \/ \* src.Write returns an error: break
        /\ tasks[t].b = "write"
        /\ tasks[t].cend
        /\ tasks' = [tasks EXCEPT ![t].b = "done", ![t].bbuf = << >>]
  /\ ConnFrame

\* wg.Wait() returns once both goroutines have ended; forwardData returns
\* and the deferred targetConn.Close() and conn.Close() run
forwardReturn(t) ==
  /\ tasks[t].st = "pump"
  /\ tasks[t].a = "done"
  /\ tasks[t].b = "done"
  /\ tasks' = [tasks EXCEPT ![t].st = "closed"]
  /\ ConnFrame

\* the client of connection t writes its next byte
clientSend(t) ==
  /\ tasks[t].st \in {"dial", "pump"}
  /\ ~tasks[t].cend
  /\ TotalSent(Len(tasks)) < MaxSend
  /\ tasks' = [tasks EXCEPT ![t].sent = @ + 1,
                             ![t].cs = Append(@, <<t, tasks[t].sent + 1>>)]
  /\ ConnFrame

\* the client of connection t closes or resets its connection
clientClose(t) ==
  /\ tasks[t].st \in {"dial", "pump"}
  /\ ~tasks[t].cend
  /\ tasks' = [tasks EXCEPT ![t].cend = TRUE]
  /\ ConnFrame

\* the target of connection t, an echo server, writes back its next byte
targetEcho(t) ==
  /\ tasks[t].st = "pump"
  /\ ~tasks[t].tend
  /\ tasks[t].echoed < Len(tasks[t].tr)
  /\ tasks' = [tasks EXCEPT ![t].echoed = @ + 1,
                             ![t].ts = Append(@, tasks[t].tr[tasks[t].echoed + 1])]
  /\ ConnFrame

\* the target of connection t closes or resets its connection
targetClose(t) ==
  /\ tasks[t].st = "pump"
  /\ ~tasks[t].tend
  /\ tasks' = [tasks EXCEPT ![t].tend = TRUE]
  /\ ConnFrame

Next ==
  \/ \E p \in Callers : StartTCPForward(p)
  \/ \E p \in Callers : StopTCPForward(p)
  \/ \E p \in Callers : StartUDPForward(p)
  \/ \E p \in Callers : StopUDPForward(p)
  \/ \E p \in Callers : IsTCPRunning(p)
  \/ \E p \in Callers : IsUDPRunning(p)
  \/ \E p \in Callers : Unlock(p)
  \/ \E l \in DOMAIN listeners : handleTCPForward(l) /\ Len(tasks') <= MaxTasks
  \/ \E l \in DOMAIN listeners : handleUDPForward(l)
  \/ \E t \in DOMAIN tasks : taskDone(t)

Spec == Init /\ [][Next]_vars

\* ------------------------------------------------------- stream relay
\* one caller starting and stopping TCP relays, their accept loops, the
\* connection tasks and the peers of the connections
StreamCallers == {1}
StreamAddr == "0.0.0.0"

StreamNext ==
  \/ \E p \in StreamCallers : StartTCPForward(p) /\ op'[p].listenAddr = StreamAddr
  \/ \E p \in StreamCallers : StopTCPForward(p) /\ op'[p].listenAddr = StreamAddr
  \/ \E p \in StreamCallers : Unlock(p)
  \/ \E l \in DOMAIN listeners : handleTCPForward(l) /\ Len(tasks') <= MaxTasks
  \/ \E t \in DOMAIN tasks : connDial(t)
  \/ \E t \in DOMAIN tasks : copyA(t)
  \/ \E t \in DOMAIN tasks : copyB(t)
  \/ \E t \in DOMAIN tasks : forwardReturn(t)
  \/ \E t \in DOMAIN tasks : clientClose(t)
  \/ \E t \in DOMAIN tasks : targetClose(t)

SpecStream == Init /\ [][StreamNext]_vars

\* the Go scheduler runs every goroutine that can take a step, and Accept
\* on a closed listener returns
StreamFair ==
  \A l \in 1..MaxListeners :
    WF_vars(l \in DOMAIN listeners /\ handleTCPForward(l))

SpecStreamFair == SpecStream /\ StreamFair

\* -------------------------------------------------- change of target
\* one relay that is started, stopped and started again, with up to
\* NumConns connections in all
RetargetNext ==
  \/ \E p \in StreamCallers : StartTCPForward(p) /\ op'[p].listenAddr = StreamAddr
  \/ \E p \in StreamCallers : StopTCPForward(p) /\ op'[p].listenAddr = StreamAddr
  \/ \E p \in StreamCallers : Unlock(p)
  \/ \E l \in DOMAIN listeners : handleTCPForward(l)
  \/ \E t \in DOMAIN tasks : connDial(t)
  \/ \E t \in DOMAIN tasks : copyA(t)
  \/ \E t \in DOMAIN tasks : clientSend(t)

SpecRetarget == Init /\ [][RetargetNext]_vars

\* ---------------------------------------------------------- byte pump
\* a relay that was started and has accepted NumConns connections, each
\* with its task about to dial the target
PumpStart ==
  [name |-> "StartTCPForward", listenAddr |-> StreamAddr, listenPort |-> "80",
   targetAddr |-> "10.0.0.1", targetPort |-> "9000"]

PumpInit ==
  /\ tcpListeners = MapPut(<< >>, TCPKey(StreamAddr, "80"), 1)
  /\ udpListeners = << >>
  /\ mu = 0
  /\ listeners = <<Listener("tcp", TCPKey(StreamAddr, "80"), PumpStart)>>
  /\ loop = <<At("accept", "none")>>
  /\ tasks = [t \in 1..NumConns |-> Conn(1)]
  /\ pc = [p \in Callers |-> "idle"]
  /\ op = [p \in Callers |-> NoOp]
  /\ res = [p \in Callers |-> "none"]
  /\ lid = [p \in Callers |-> 0]
  /\ io = [p \in Callers |-> {}]
  /\ pre = [p \in Callers |-> NoPre]
  /\ AppInit

PumpNext ==
  \/ \E p \in StreamCallers : StopTCPForward(p) /\ op'[p].listenAddr = StreamAddr
  \/ \E p \in StreamCallers : Unlock(p)
  \/ \E l \in DOMAIN listeners : handleTCPForward(l)
  \/ \E t \in DOMAIN tasks : connDial(t)
  \/ \E t \in DOMAIN tasks : copyA(t)
  \/ \E t \in DOMAIN tasks : copyB(t)
  \/ \E t \in DOMAIN tasks : forwardReturn(t)
  \/ \E t \in DOMAIN tasks : clientSend(t)
  \/ \E t \in DOMAIN tasks : clientClose(t)
  \/ \E t \in DOMAIN tasks : targetEcho(t)
  \/ \E t \in DOMAIN tasks : targetClose(t)

SpecPump == PumpInit /\ [][PumpNext]_vars

\* the Go scheduler runs every goroutine of a connection task that can take
\* a step: a Read returns once bytes, an end of stream or an error are
\* there, a Write and a Dial return, wg.Wait returns once both are done.
\* Nothing makes a peer write or close.
PumpFair ==
  \A t \in 1..NumConns :
    /\ WF_vars(t \in DOMAIN tasks /\ connDial(t))
    /\ WF_vars(t \in DOMAIN tasks /\ copyA(t))
    /\ WF_vars(t \in DOMAIN tasks /\ copyB(t))
    /\ WF_vars(t \in DOMAIN tasks /\ forwardReturn(t))

SpecPumpFair == SpecPump /\ PumpFair

\* on top of that every client ends its transfer: it closes its connection
ClientsFinish ==
  \A t \in 1..NumConns : WF_vars(t \in DOMAIN tasks /\ clientClose(t))

SpecPumpDrain == SpecPump /\ PumpFair /\ ClientsFinish

\* ------------------------------------------------------ datagram relay
\* whatever a step of a reply task or of a peer of it leaves alone
ReplyFrame ==
  UNCHANGED <<tcpListeners, udpListeners, mu, loop, pc, op, res, lid, io, pre, app>>

\* task t of a datagram relay is at this step of go func(clientAddr)
ReplyAt(t, st) == tasks[t].of \in DOMAIN listeners /\ tasks[t].st = st

\* targetConn, err := net.DialUDP("udp", nil, target): a transient socket
\* of its own, or return
replyDial(t) ==
  /\ ReplyAt(t, "dial")
  /\ \E r \in IOResults :
       tasks' = [tasks EXCEPT ![t].st = IF r = "ok" THEN "read" ELSE "done"]
  /\ UNCHANGED listeners
  /\ ReplyFrame

\* n, err := targetConn.Read(responseBuf), with no deadline: it returns
\* once a datagram or an error is there for the transient socket, and an
\* error makes the task return (defer targetConn.Close())
replyRead(t) ==
  /\ ReplyAt(t, "read")
  /\ \/ /\ tasks[t].inbox # << >>
        /\ tasks' = [tasks EXCEPT ![t].st = "write",
                                   ![t].rbuf = Head(tasks[t].inbox).payload,
                                   ![t].inbox = Tail(@)]
     \/ /\ tasks[t].inbox = << >>
        /\ tasks[t].rerr
        /\ tasks' = [tasks EXCEPT ![t].st = "done"]
  /\ UNCHANGED listeners
  /\ ReplyFrame

\* a reply task that answers the sender of the datagram the loop read last
replyWriteToLatest(t) ==
  /\ ReplyAt(t, "write")
  /\ \E r \in IF listeners[tasks[t].of].open THEN IOResults ELSE {"err"} :
       listeners' =
         IF r = "ok"
         THEN [listeners EXCEPT ![tasks[t].of].out =
                 Append(@, [to |-> tasks[Len(tasks)].clientAddr,
                            payload |-> tasks[t].rbuf])]
         ELSE listeners
  /\ tasks' = [tasks EXCEPT ![t].st = "done"]
  /\ ReplyFrame

\* conn.WriteToUDP(responseBuf[:n], clientAddr) through the listening
\* socket; an error, as on a closed socket, is logged; then the task returns
\* (defer targetConn.Close())
replyWrite(t) ==
  /\ ReplyAt(t, "write")
  /\ \E r \in IF listeners[tasks[t].of].open THEN IOResults ELSE {"err"} :
       listeners' =
         IF r = "ok"
         THEN [listeners EXCEPT ![tasks[t].of].out =
                 Append(@, [to |-> tasks[t].clientAddr,
                            payload |-> tasks[t].rbuf])]
         ELSE listeners
  /\ tasks' = [tasks EXCEPT ![t].st = "done"]
  /\ ReplyFrame

\* the clients of a datagram relay
Clients == {<<"192.0.2.1", "5001">>, <<"192.0.2.2", "5002">>}

\* client c sends its next datagram to the listening socket l
clientSendDatagram(l, c) ==
  /\ listeners[l].proto = "udp"
  /\ listeners[l].open
  /\ listeners[l].nsent < MaxDatagrams
  /\ listeners' = [listeners EXCEPT
                     ![l].nsent = @ + 1,
                     ![l].inbox = Append(@, [from |-> c,
                                             payload |-> <<c, listeners[l].nsent + 1>>])]
  /\ UNCHANGED tasks
  /\ ReplyFrame

\* the datagrams written through socket l that have reached the target
ToTarget(l) ==
  {k \in 1..Len(listeners[l].out) : listeners[l].out[k].to = TargetOf(l)}

\* the target of socket l, an echo service, answers the next datagram it
\* has received: the same payload, to the address the datagram came from,
\* which is the listening socket
targetEchoDatagram(l) ==
  /\ listeners[l].proto = "udp"
  /\ \E k \in ToTarget(l) :
       /\ k > listeners[l].echoed
       /\ \A j \in ToTarget(l) : j > listeners[l].echoed => k <= j
       /\ listeners' = [listeners EXCEPT
                          ![l].echoed = k,
                          ![l].inbox =
                             IF listeners[l].open
                             THEN Append(@, [from |-> TargetOf(l),
                                             payload |-> listeners[l].out[k].payload])
                             ELSE @]
  /\ UNCHANGED tasks
  /\ ReplyFrame

\* the host at the target address sends a datagram of its own to the port
\* of the transient socket of task t
targetSendsTo(t) ==
  /\ ReplyAt(t, "read")
  /\ tasks[t].inbox = << >>
  /\ ~tasks[t].rerr
  /\ tasks' = [tasks EXCEPT ![t].inbox =
                 Append(@, [from |-> tasks[t].target,
                            payload |-> <<tasks[t].target, t>>])]
  /\ UNCHANGED listeners
  /\ ReplyFrame

\* the network stack reports an error on the transient socket of task t
targetConnFails(t) ==
  /\ ReplyAt(t, "read")
  /\ tasks[t].inbox = << >>
  /\ ~tasks[t].rerr
  /\ tasks' = [tasks EXCEPT ![t].rerr = TRUE]
  /\ UNCHANGED listeners
  /\ ReplyFrame

\* a datagram relay that was started: its Session is registered and its
\* receive loop is about to resolve the target
DatagramStart ==
  [name |-> "StartUDPForward", listenAddr |-> StreamAddr, listenPort |-> "80",
   targetAddr |-> "10.0.0.1", targetPort |-> "9000"]

\* the call that stops it
DatagramStop ==
  [DatagramStart EXCEPT !.name = "StopUDPForward",
                        !.targetAddr = NoOp.targetAddr,
                        !.targetPort = NoOp.targetPort]

DatagramInit ==
  /\ tcpListeners = << >>
  /\ udpListeners = MapPut(<< >>, UDPKey(StreamAddr, "80"), 1)
  /\ mu = 0
  /\ listeners = <<Listener("udp", UDPKey(StreamAddr, "80"), DatagramStart)>>
  /\ loop = <<At("resolve", "none")>>
  /\ tasks = << >>
  /\ pc = [p \in Callers |-> "idle"]
  /\ op = [p \in Callers |-> NoOp]
  /\ res = [p \in Callers |-> "none"]
  /\ lid = [p \in Callers |-> 0]
  /\ io = [p \in Callers |-> {}]
  /\ pre = [p \in Callers |-> NoPre]
  /\ AppInit

DatagramNext ==
  \/ \E p \in StreamCallers : StopUDPForward(p) /\ op'[p] = DatagramStop
  \/ \E p \in StreamCallers : Unlock(p)
  \/ \E l \in DOMAIN listeners : handleUDPForward(l)
  \/ \E t \in DOMAIN tasks : replyDial(t)
  \/ \E t \in DOMAIN tasks : replyRead(t)
  \/ \E t \in DOMAIN tasks : replyWrite(t)
  \/ \E l \in DOMAIN listeners : \E c \in Clients : clientSendDatagram(l, c)
  \/ \E l \in DOMAIN listeners : targetEchoDatagram(l)
  \/ \E t \in DOMAIN tasks : targetSendsTo(t)
  \/ \E t \in DOMAIN tasks : targetConnFails(t)

SpecDatagram == DatagramInit /\ [][DatagramNext]_vars

\* a step of the receive loop of socket l other than a read of the open
\* socket that fails
LoopStep(l) ==
  /\ l \in DOMAIN listeners
  /\ handleUDPForward(l)
  /\ ~(l \in DOMAIN listeners' /\ loop'[l] = At("exited", "error"))

\* the Go scheduler runs the receive loop and every reply task that can take
\* a step: a Read returns once a datagram is there or the socket is closed,
\* a Write, a Dial and a Resolve return. The target is an echo service, so
\* it answers what it receives. Nothing makes a read of an open socket
\* fail, nothing makes a client send, and nothing makes the target send to
\* a socket it has heard nothing from.
DatagramFair ==
  /\ \A l \in 1..MaxListeners :
       /\ WF_vars(LoopStep(l))
       /\ WF_vars(l \in DOMAIN listeners /\ targetEchoDatagram(l))
  /\ \A t \in 1..MaxReplies :
       /\ WF_vars(t \in DOMAIN tasks /\ replyDial(t))
       /\ WF_vars(t \in DOMAIN tasks /\ replyRead(t))
       /\ WF_vars(t \in DOMAIN tasks /\ replyWrite(t))

SpecDatagramFair == SpecDatagram /\ DatagramFair

\* ------------------------------------------ rules, templates, storage
\* whatever a step of a rule or template handler leaves alone: the forwarder
ForwarderFrame ==
  UNCHANGED <<tcpListeners, udpListeners, mu, listeners, loop, tasks,
              pc, op, res, lid, io, pre>>

\* uuid.New().String()
RuleIds == {"r1", "r2"}
TemplateNames == {"a", "b"}

\* the lists of rule IDs a request carries
IdLists == UNION {[1..n -> RuleIds] : n \in 1..MaxIDs}

\* Rule{ID: id, Seq: seq, ListenAddr: "", ...}
Rule(id, seq) ==
  [id |-> id, seq |-> seq, listenAddr |-> "", listenPort |-> "",
   targetAddr |-> "", targetPort |-> ""]

\* Template{Name: name, Rules: ids} (CreatedAt is only displayed)
Template(name, ids) == [name |-> name, rules |-> ids]

\* maxSeq := 0; for _, rule := range rules { if rule.Seq > maxSeq { ... } }
RECURSIVE MaxSeqOf(_)
MaxSeqOf(rs) ==
  IF rs = << >> THEN 0
  ELSE LET m == MaxSeqOf(Tail(rs)) IN IF Head(rs).seq > m THEN Head(rs).seq ELSE m

\* a sequence number that counts the rules
SeqByCount(rs) == Len(rs) + 1

\* seq := maxSeq + 1
NextSeq(rs) == MaxSeqOf(rs) + 1

\* the IDs in use: a new UUID is none of them
UsedIDs ==
  {rules[i].id : i \in DOMAIN rules}
    \cup UNION {Range(templates[i].rules) : i \in DOMAIN templates}

\* the rules whose ID is not in ids, in their order
KeepRules(rs, ids) == SelectSeq(rs, LAMBDA r : r.id \notin Range(ids))

\* a filter that forgets the last entry it keeps
KeepIDsButLast(list, ids) ==
  LET kept == SelectSeq(list, LAMBDA x : x \notin Range(ids)) IN
  IF kept = list THEN kept ELSE SubSeq(kept, 1, Len(kept) - 1)

\* the rule IDs of a template that are not in ids, in their order
KeepIDs(list, ids) == SelectSeq(list, LAMBDA x : x \notin Range(ids))

\* for i, template := range templates { if template.Name == name ... }:
\* the first template of this name, 0 when there is none
IndexOfName(ts, name) ==
  IF \E i \in DOMAIN ts : ts[i].name = name
  THEN CHOOSE i \in DOMAIN ts :
         ts[i].name = name /\ \A j \in DOMAIN ts : ts[j].name = name => i <= j
  ELSE 0

\* the loop over req.IDs of apiSaveAsTemplate: `template` is the copy the
\* range statement made, so existingID ranges over the rule IDs the template
\* had before the request (seen), while append works on templates[i].Rules (cur)
RECURSIVE AppendNew(_, _, _)
AppendNew(cur, seen, ids) ==
  IF ids = << >> THEN cur
  ELSE AppendNew(IF Head(ids) \in Range(seen) THEN cur ELSE Append(cur, Head(ids)),
                 seen, Tail(ids))

\* the handler calls storage.SaveRules(rules) / storage.SaveTemplates(templates)
Save(p, api, which, arg, ids) ==
  req' = [req EXCEPT ![p] = [api |-> api, at |-> which, name |-> "", ids |-> ids, arg |-> arg]]

\* apiAddRule
apiAddRule(p) ==
  /\ req[p] = NoRequest
  /\ Len(rules) < MaxRules
  /\ NextSeq(rules) <= MaxSeq
  /\ \E id \in RuleIds \ UsedIDs :
       rules' = Append(rules, Rule(id, NextSeq(rules)))
  /\ Save(p, "apiAddRule", "SaveRules", rules', << >>)
  /\ UNCHANGED <<templates, file, appData>>
  /\ ForwarderFrame

\* apiDeleteRules up to storage.SaveRules(rules)
apiDeleteRules(p) ==
  /\ req[p] = NoRequest
  /\ \E ids \in IdLists :
       /\ rules' = KeepRules(rules, ids)
       /\ Save(p, "apiDeleteRules", "SaveRules", rules', ids)
  /\ UNCHANGED <<templates, file, appData>>
  /\ ForwarderFrame

\* apiDeleteRules after SaveRules: the templates lose the IDs, SaveTemplates
apiDeleteRulesTemplates(p) ==
  /\ req[p].at = "templates"
  /\ templates' = [i \in DOMAIN templates |->
                     [templates[i] EXCEPT !.rules = KeepIDs(@, req[p].ids)]]
  /\ Save(p, "apiDeleteRules", "SaveTemplates", templates', req[p].ids)
  /\ UNCHANGED <<rules, file, appData>>
  /\ ForwarderFrame

\* an update that takes the relay of the rule's old listen address out of
\* the registry
apiUpdateRuleDropsRelay(p) ==
  /\ req[p] = NoRequest
  /\ \E id \in RuleIds, o \in StartArgs("rule") :
       /\ rules' = [i \in DOMAIN rules |->
                      IF rules[i].id = id /\ \A j \in 1..(i - 1) : rules[j].id # id
                      THEN [rules[i] EXCEPT !.listenAddr = o.listenAddr,
                                            !.listenPort = o.listenPort,
                                            !.targetAddr = o.targetAddr,
                                            !.targetPort = o.targetPort]
                      ELSE rules[i]]
       /\ tcpListeners' =
            [k \in DOMAIN tcpListeners \
                    {TCPKey(r.listenAddr, r.listenPort) :
                       r \in {x \in Range(rules) : x.id = id}} |-> tcpListeners[k]]
  /\ Save(p, "apiUpdateRule", "SaveRules", rules', << >>)
  /\ UNCHANGED <<templates, file, appData>>
  /\ UNCHANGED <<udpListeners, mu, listeners, loop, tasks, pc, op, res, lid, io, pre>>

\* apiUpdateRule
apiUpdateRule(p) ==
  /\ req[p] = NoRequest
  /\ \E id \in RuleIds, o \in StartArgs("rule") :
       rules' = [i \in DOMAIN rules |->
                  IF rules[i].id = id /\ \A j \in 1..(i - 1) : rules[j].id # id
                  THEN [rules[i] EXCEPT !.listenAddr = o.listenAddr,
                                        !.listenPort = o.listenPort,
                                        !.targetAddr = o.targetAddr,
                                        !.targetPort = o.targetPort]
                  ELSE rules[i]]
  /\ Save(p, "apiUpdateRule", "SaveRules", rules', << >>)
  /\ UNCHANGED <<templates, file, appData>>
  /\ ForwarderFrame

\* apiSaveAsTemplate
apiSaveAsTemplate(p) ==
  /\ req[p] = NoRequest
  /\ \E name \in TemplateNames, ids \in IdLists :
       LET i == IndexOfName(templates, name) IN
       /\ templates' =
            IF i # 0
            THEN [templates EXCEPT
                    ![i].rules = AppendNew(templates[i].rules, templates[i].rules, ids)]
            ELSE Append(templates, Template(name, ids))
       /\ Len(templates') <= MaxTemplates
       /\ \A j \in DOMAIN templates' : Len(templates'[j].rules) <= MaxTemplateRules
  /\ Save(p, "apiSaveAsTemplate", "SaveTemplates", templates', << >>)
  /\ UNCHANGED <<rules, file, appData>>
  /\ ForwarderFrame

\* apiDeleteTemplate with a name (an empty name is answered 400)
apiDeleteTemplate(p) ==
  /\ req[p] = NoRequest
  /\ \E name \in TemplateNames :
       templates' = SelectSeq(templates, LAMBDA t : t.name # name)
  /\ Save(p, "apiDeleteTemplate", "SaveTemplates", templates', << >>)
  /\ UNCHANGED <<rules, file, appData>>
  /\ ForwarderFrame

\* apiUpdateTemplate with both names, for a template that is found (empty
\* names are answered 400, an unknown old name 404)
apiUpdateTemplate(p) ==
  /\ req[p] = NoRequest
  /\ \E oldName \in TemplateNames, newName \in TemplateNames :
       /\ IndexOfName(templates, oldName) # 0
       /\ templates' = [templates EXCEPT ![IndexOfName(templates, oldName)].name = newName]
  /\ Save(p, "apiUpdateTemplate", "SaveTemplates", templates', << >>)
  /\ UNCHANGED <<rules, file, appData>>
  /\ ForwarderFrame

\* SaveRules / SaveTemplates has returned: apiDeleteRules goes on to its
\* templates after SaveRules, every other handler answers
Saved(p) ==
  IF req[p].api = "apiDeleteRules" /\ req[p].at \in {"SaveRules", "saveRules"}
  THEN req' = [req EXCEPT ![p].at = "templates"]
  ELSE req' = [req EXCEPT ![p] = NoRequest]

\* appData, err := s.loadAppData(); if err != nil { return err }
loadAppData(p) ==
  /\ req[p].at \in {"SaveRules", "SaveTemplates"}
  /\ \E r \in IOResults :
       IF r = "ok"
       THEN /\ appData' = [appData EXCEPT ![p] =
                             [rules |-> file.rules, templates |-> file.templates,
                              loaded |-> TRUE]]
            /\ req' = [req EXCEPT ![p].at =
                         IF req[p].at = "SaveRules" THEN "saveRules" ELSE "saveTemplates"]
       ELSE /\ Saved(p)
            /\ UNCHANGED appData
  /\ UNCHANGED <<rules, templates, file>>
  /\ ForwarderFrame

\* appData.Rules = rules / appData.Templates = templates: what saveAppData
\* is given
Written(p) ==
  IF req[p].at = "saveRules"
  THEN [rules |-> req[p].arg, templates |-> appData[p].templates]
  ELSE [rules |-> appData[p].rules, templates |-> req[p].arg]

\* return s.saveAppData(appData): os.WriteFile, whose error is logged
saveAppData(p) ==
  /\ req[p].at \in {"saveRules", "saveTemplates"}
  /\ \E r \in IOResults : file' = IF r = "ok" THEN Written(p) ELSE file
  /\ appData' = [appData EXCEPT ![p] = NoData]
  /\ Saved(p)
  /\ UNCHANGED <<rules, templates>>
  /\ ForwarderFrame

\* no other handler is serving a request
Alone(p) == \A q \in Callers \ {p} : req[q] = NoRequest

\* the rule and template handlers, one request at a time, with a data file
\* that can be read and written
RulesNext ==
  \/ \E p \in StreamCallers : Alone(p) /\ apiAddRule(p)
  \/ \E p \in StreamCallers : Alone(p) /\ apiDeleteRules(p)
  \/ \E p \in StreamCallers : Alone(p) /\ apiDeleteRulesTemplates(p)
  \/ \E p \in StreamCallers : Alone(p) /\ apiSaveAsTemplate(p)
  \/ \E p \in StreamCallers : Alone(p) /\ apiDeleteTemplate(p)
  \/ \E p \in StreamCallers : Alone(p) /\ apiUpdateTemplate(p)
  \/ \E p \in StreamCallers : Alone(p) /\ loadAppData(p) /\ appData'[p].loaded
  \/ \E p \in StreamCallers : Alone(p) /\ saveAppData(p) /\ file' = Written(p)

SpecRules == Init /\ [][RulesNext]_vars

\* a rule list and a template list that were saved: the data file holds them
StorageInit ==
  /\ tcpListeners = << >>
  /\ udpListeners = << >>
  /\ mu = 0
  /\ listeners = << >>
  /\ loop = << >>
  /\ tasks = << >>
  /\ pc = [p \in Callers |-> "idle"]
  /\ op = [p \in Callers |-> NoOp]
  /\ res = [p \in Callers |-> "none"]
  /\ lid = [p \in Callers |-> 0]
  /\ io = [p \in Callers |-> {}]
  /\ pre = [p \in Callers |-> NoPre]
  /\ rules = <<Rule("r1", 1)>>
  /\ templates = <<Template("a", <<"r1">>)>>
  /\ file = [rules |-> rules, templates |-> templates]
  /\ appData = [p \in Callers |-> NoData]
  /\ req = [p \in Callers |-> NoRequest]

\* handlers that save rules and handlers that save templates, served
\* concurrently by net/http, one goroutine per request
StorageNext ==
  \/ \E p \in Callers : apiAddRule(p)
  \/ \E p \in Callers : apiUpdateTemplate(p)
  \/ \E p \in Callers : apiDeleteTemplate(p)
  \/ \E p \in Callers : loadAppData(p)
  \/ \E p \in Callers : saveAppData(p)

SpecStorage == StorageInit /\ [][StorageNext]_vars

\* ------------------------------------- forwarding the rules of a template
\* handlers that make the TCP call only when they stop a rule
ForwarderCallsStopTCPOnly ==
  ("StartTCPForward" :> "StartUDPForward") @@ ("StartUDPForward" :> "range")
    @@ ("StopTCPForward" :> "range") @@ ("StopUDPForward" :> "range")

\* the calls apiStartTemplateForward makes for one rule, and those
\* apiStopTemplateForward makes, in the order of the code
ForwarderCalls ==
  ("StartTCPForward" :> "StartUDPForward") @@ ("StartUDPForward" :> "range")
    @@ ("StopTCPForward" :> "StopUDPForward") @@ ("StopUDPForward" :> "range")

\* apiStartTemplateForward up to its loop: the first template of the name
\* is looked up (an unknown name is answered 404)
apiStartTemplateForward(p) ==
  /\ req[p] = NoRequest
  /\ pc[p] = "idle"
  /\ \E name \in TemplateNames :
       /\ IndexOfName(templates, name) # 0
       /\ req' = [req EXCEPT ![p] =
                    [api |-> "apiStartTemplateForward", at |-> "range", name |-> name,
                     ids |-> templates[IndexOfName(templates, name)].rules,
                     arg |-> << >>]]
  /\ UNCHANGED <<rules, templates, file, appData>>
  /\ ForwarderFrame

\* apiStopTemplateForward up to its loop
apiStopTemplateForward(p) ==
  /\ req[p] = NoRequest
  /\ pc[p] = "idle"
  /\ \E name \in TemplateNames :
       /\ IndexOfName(templates, name) # 0
       /\ req' = [req EXCEPT ![p] =
                    [api |-> "apiStopTemplateForward", at |-> "range", name |-> name,
                     ids |-> templates[IndexOfName(templates, name)].rules,
                     arg |-> << >>]]
  /\ UNCHANGED <<rules, templates, file, appData>>
  /\ ForwarderFrame

\* a loop whose break leaves the loop over the rule IDs as well
rangeRulesBreaksOut(p) ==
  /\ req[p].api \in {"apiStartTemplateForward", "apiStopTemplateForward"}
  /\ req[p].at = "range"
  /\ pc[p] = "idle"
  /\ IF req[p].ids = << >> \/ req[p].arg # << >>
     THEN req' = [req EXCEPT ![p] = NoRequest]
     ELSE LET found == SelectSeq(rules, LAMBDA r : r.id = Head(req[p].ids)) IN
          req' = [req EXCEPT
                    ![p].ids = Tail(@),
                    ![p].arg = IF found = << >> THEN << >> ELSE <<Head(found)>>,
                    ![p].at = IF found = << >> THEN "range"
                              ELSE IF req[p].api = "apiStartTemplateForward"
                                   THEN "StartTCPForward" ELSE "StopTCPForward"]
  /\ UNCHANGED <<rules, templates, file, appData>>
  /\ ForwarderFrame

\* for _, ruleID := range template.Rules { for _, rule := range rules {
\* if rule.ID == ruleID { ...; break } } }: the next rule ID of the template
\* and the first rule that has it; after the last one the handler answers
\* success
rangeRules(p) ==
  /\ req[p].api \in {"apiStartTemplateForward", "apiStopTemplateForward"}
  /\ req[p].at = "range"
  /\ pc[p] = "idle"
  /\ IF req[p].ids = << >>
     THEN req' = [req EXCEPT ![p] = NoRequest]
     ELSE LET found == SelectSeq(rules, LAMBDA r : r.id = Head(req[p].ids)) IN
          req' = [req EXCEPT
                    ![p].ids = Tail(@),
                    ![p].arg = IF found = << >> THEN << >> ELSE <<Head(found)>>,
                    ![p].at = IF found = << >> THEN "range"
                              ELSE IF req[p].api = "apiStartTemplateForward"
                                   THEN "StartTCPForward" ELSE "StopTCPForward"]
  /\ UNCHANGED <<rules, templates, file, appData>>
  /\ ForwarderFrame

\* forwarder.StartTCPForward(rule.ListenAddr, rule.ListenPort,
\* rule.TargetAddr, rule.TargetPort) and the three other calls, with the
\* fields of the rule the loop holds
callForwarder(p) ==
  /\ req[p].at \in DOMAIN ForwarderCalls
  /\ \/ StartTCPCheck(p)
     \/ StartUDPCheck(p)
     \/ StopTCPLookup(p)
     \/ StopUDPLookup(p)
  /\ op'[p].name = req[p].at
  /\ op'[p].listenAddr = req[p].arg[1].listenAddr
  /\ op'[p].listenPort = req[p].arg[1].listenPort
  /\ op'[p].targetAddr \in {"", req[p].arg[1].targetAddr}
  /\ op'[p].targetPort \in {"", req[p].arg[1].targetPort}

\* the call of the Forwarder has its result, which the handler drops: it
\* goes on to the next call
forwarderReturned(p) ==
  /\ req[p].at \in DOMAIN ForwarderCalls
  /\ pc[p] = "ret"
  /\ op[p].name = req[p].at
  /\ req' = [req EXCEPT ![p].at = ForwarderCalls[req[p].at]]
  /\ UNCHANGED <<rules, templates, file, appData>>
  /\ ForwarderFrame

\* two saved rules with their own listen addresses, and two templates
TemplateInit ==
  /\ tcpListeners = << >>
  /\ udpListeners = << >>
  /\ mu = 0
  /\ listeners = << >>
  /\ loop = << >>
  /\ tasks = << >>
  /\ pc = [p \in Callers |-> "idle"]
  /\ op = [p \in Callers |-> NoOp]
  /\ res = [p \in Callers |-> "none"]
  /\ lid = [p \in Callers |-> 0]
  /\ io = [p \in Callers |-> {}]
  /\ pre = [p \in Callers |-> NoPre]
  /\ rules = <<[Rule("r1", 1) EXCEPT !.listenAddr = "", !.listenPort = "80",
                  !.targetAddr = "10.0.0.1", !.targetPort = "9000"],
               [Rule("r2", 2) EXCEPT !.listenAddr = "0.0.0.0", !.listenPort = "80",
                  !.targetAddr = "10.0.0.2", !.targetPort = "9000"]>>
  /\ templates = <<Template("a", <<"r1", "r2">>), Template("b", <<"r2">>)>>
  /\ file = [rules |-> rules, templates |-> templates]
  /\ appData = [p \in Callers |-> NoData]
  /\ req = [p \in Callers |-> NoRequest]

\* the template forwarding handlers and the handlers that change rules, one
\* request at a time; the relays they start are left without traffic
TemplateNext ==
  \/ \E p \in StreamCallers : apiStartTemplateForward(p)
  \/ \E p \in StreamCallers : apiStopTemplateForward(p)
  \/ \E p \in StreamCallers : rangeRules(p)
  \/ \E p \in StreamCallers : callForwarder(p)
  \/ \E p \in StreamCallers : forwarderReturned(p)
  \/ \E p \in StreamCallers : StartTCPListen(p)
  \/ \E p \in StreamCallers : StartUDPResolve(p)
  \/ \E p \in StreamCallers : StartUDPListen(p)
  \/ \E p \in StreamCallers : StopTCPClose(p)
  \/ \E p \in StreamCallers : StopUDPClose(p)
  \/ \E p \in StreamCallers : Unlock(p) /\ op[p].name # req[p].at
  \/ \E p \in StreamCallers : pc[p] = "idle" /\ apiUpdateRule(p)
  \/ \E p \in StreamCallers : pc[p] = "idle" /\ apiDeleteRules(p)
  \/ \E p \in StreamCallers : apiDeleteRulesTemplates(p)
  \/ \E p \in StreamCallers : loadAppData(p) /\ appData'[p].loaded
  \/ \E p \in StreamCallers : saveAppData(p) /\ file' = Written(p)

SpecTemplate == TemplateInit /\ [][TemplateNext]_vars

TypeOK ==
  /\ mu \in 0..NumCallers
  /\ DOMAIN loop = DOMAIN listeners
  /\ DOMAIN listeners \subseteq 1..MaxListeners
  /\ \A t \in DOMAIN tasks : tasks[t].of \in DOMAIN listeners
  /\ \A k \in DOMAIN tcpListeners : tcpListeners[k] \in DOMAIN listeners
  /\ \A k \in DOMAIN udpListeners : udpListeners[k] \in DOMAIN listeners
  /\ \A p \in Callers : lid[p] # 0 => lid[p] \in DOMAIN listeners

\* ------------------------------------------------------------------ claims
Registered == Range(tcpListeners) \cup Range(udpListeners)

\* the key of the registry the current call of p works on
CallKey(p) ==
  IF op[p].name \in {"StartTCPForward", "StopTCPForward", "IsTCPRunning"}
  THEN TCPKey(op[p].listenAddr, op[p].listenPort)
  ELSE UDPKey(op[p].listenAddr, op[p].listenPort)

\* the map of the registry the current call of p works on
CallMap(p) ==
  IF op[p].name \in {"StartTCPForward", "StopTCPForward", "IsTCPRunning"}
  THEN tcpListeners ELSE udpListeners

IsStart(p) == op[p].name \in {"StartTCPForward", "StartUDPForward"}
IsStop(p) == op[p].name \in {"StopTCPForward", "StopUDPForward"}
Returning(p, r) == pc[p] = "ret" /\ res[p] = r

\* both maps are as they were when the call took the lock
RegistryUnchanged(p) ==
  /\ tcpListeners = pre[p].tcp
  /\ udpListeners = pre[p].udp

\* since the call took the lock nothing was bound and nothing was closed
ListenersUnchanged(p) ==
  \A l \in DOMAIN listeners :
    l \in DOMAIN pre[p].listeners /\ Binding(listeners[l]) = pre[p].listeners[l]

\* C1: at every moment each key of either map names one listener of that
\* protocol and key, no listener is registered twice, and no two open
\* listeners / sockets were bound for the same protocol and key.
C1_OneSessionPerKey ==
  /\ \A k \in DOMAIN tcpListeners :
       /\ listeners[tcpListeners[k]].proto = "tcp"
       /\ listeners[tcpListeners[k]].key = k
  /\ \A k \in DOMAIN udpListeners :
       /\ listeners[udpListeners[k]].proto = "udp"
       /\ listeners[udpListeners[k]].key = k
  /\ \A l1, l2 \in Open :
       (listeners[l1].proto = listeners[l2].proto
          /\ listeners[l1].key = listeners[l2].key) => l1 = l2

\* a key was stopped and started again while the goroutine of its old,
\* closed listener is still there: two listeners of one key, one of them open
C1_Witness ==
  \E l1, l2 \in DOMAIN listeners :
    /\ l1 # l2
    /\ listeners[l1].proto = listeners[l2].proto
    /\ listeners[l1].key = listeners[l2].key
    /\ listeners[l1].open /\ ~listeners[l2].open
    /\ l1 \in Registered

\* C2: the step in which a Start call returns ok leaves its key in the map
\* IsTCPRunning / IsUDPRunning reads, and the step in which a Stop call
\* returns ok leaves its key out of it.
C2_RunningAfterStartNotAfterStop ==
  [][\A p \in Callers : \A o \in {op[p]} :
       (Returning(p, "ok") /\ pc'[p] = "idle") =>
         /\ o.name = "StartTCPForward" => TCPRunning(o.listenAddr, o.listenPort)'
         /\ o.name = "StartUDPForward" => UDPRunning(o.listenAddr, o.listenPort)'
         /\ o.name = "StopTCPForward" => ~TCPRunning(o.listenAddr, o.listenPort)'
         /\ o.name = "StopUDPForward" => ~UDPRunning(o.listenAddr, o.listenPort)']_vars

\* a Stop call that found its key and closed the listener is about to return ok
\* while the other map still holds a session
C2_Witness ==
  \E p \in Callers :
    /\ Returning(p, "ok") /\ IsStop(p)
    /\ CallKey(p) \in DOMAIN pre[p].tcp \cup DOMAIN pre[p].udp
    /\ Registered # {}

\* C3: a Start call that returns AlreadyRunning made no call of the net
\* package, bound and closed nothing, and left both maps as they were: its
\* key still names the listener it named before, with the same target.
C3_DuplicateStartChangesNothing ==
  \A p \in Callers :
    (Returning(p, "AlreadyRunning") /\ IsStart(p)) =>
      /\ io[p] = {}
      /\ RegistryUnchanged(p)
      /\ ListenersUnchanged(p)
      /\ CallKey(p) \in DOMAIN CallMap(p)
      /\ listeners[CallMap(p)[CallKey(p)]].key = CallKey(p)

\* a Start is refused for a key whose session has another target
C3_Witness ==
  \E p \in Callers :
    /\ Returning(p, "AlreadyRunning") /\ IsStart(p)
    /\ CallKey(p) \in DOMAIN CallMap(p)
    /\ listeners[CallMap(p)[CallKey(p)]].targetAddr # op[p].targetAddr

\* C4: the check and the insert of a Start call are one step for the other
\* calls: while a Start call is between its check and its return no other
\* call is inside the registry, its key is in the map only once it has
\* inserted it itself, and the listener it returns ok for is the one
\* registered for the key and the only open one bound for it.
C4_CheckAndInsertAtomic ==
  \A p \in Callers :
    (IsStart(p) /\ pc[p] # "idle") =>
      /\ \A q \in Callers \ {p} : pc[q] = "idle"
      /\ pc[p] \in {"listen", "resolve"} => CallKey(p) \notin DOMAIN CallMap(p)
      /\ Returning(p, "ok") =>
           /\ CallKey(p) \in DOMAIN CallMap(p)
           /\ CallMap(p)[CallKey(p)] = lid[p]
           /\ \A l \in Open : listeners[l].key = CallKey(p) => l = lid[p]

\* a Start call has bound its listener and is about to return ok for a key
\* that was free when it took the lock
C4_Witness ==
  \E p \in Callers :
    /\ Returning(p, "ok") /\ IsStart(p)
    /\ CallKey(p) \notin DOMAIN pre[p].tcp \cup DOMAIN pre[p].udp
    /\ lid[p] \in Open

\* C5: a Stop call that returns NotRunning made no call of the net package,
\* closed nothing and left both maps as they were.
C5_StopAbsentChangesNothing ==
  \A p \in Callers :
    (Returning(p, "NotRunning") /\ IsStop(p)) =>
      /\ io[p] = {}
      /\ RegistryUnchanged(p)
      /\ ListenersUnchanged(p)
      /\ CallKey(p) \notin DOMAIN CallMap(p)

\* a Stop is refused for a free key while the other sessions are registered
C5_Witness ==
  \E p \in Callers :
    /\ Returning(p, "NotRunning") /\ IsStop(p)
    /\ DOMAIN tcpListeners # {}
    /\ DOMAIN udpListeners # {}

\* C6: a Start call that returns BindFailed has called resolve / listen,
\* registered nothing for its key, bound no listener, launched no loop and
\* left both maps as they were.
C6_BindFailedChangesNothing ==
  \A p \in Callers :
    (Returning(p, "BindFailed") /\ IsStart(p)) =>
      /\ io[p] # {}
      /\ RegistryUnchanged(p)
      /\ ListenersUnchanged(p)
      /\ DOMAIN loop \subseteq DOMAIN pre[p].listeners
      /\ CallKey(p) \notin DOMAIN CallMap(p)
      /\ lid[p] = 0

\* a Start fails to bind while another session is registered
C6_Witness ==
  \E p \in Callers :
    /\ Returning(p, "BindFailed") /\ IsStart(p)
    /\ "listen" \in io[p]
    /\ Registered # {}

\* C7: no caller is inside a call of the net package (resolve, listen,
\* close) while it holds the registry lock.
C7_Blocking == {"resolve", "listen", "close"}

C7_NoIOUnderLock ==
  \A p \in Callers : pc[p] \in C7_Blocking => mu # p

\* C8: whenever a Stop call is inside Close, and when it returns CloseFailed,
\* its key is already out of the map.
C8_RemovedBeforeClose ==
  \A p \in Callers :
    IsStop(p) =>
      /\ pc[p] = "close" => CallKey(p) \notin DOMAIN CallMap(p)
      /\ Returning(p, "CloseFailed") => CallKey(p) \notin DOMAIN CallMap(p)

\* C9: whenever no registry operation is in progress, a listener / socket is
\* open exactly when a key of the registry names it.
C9_OpenIffRegistered ==
  mu = 0 => \A l \in DOMAIN listeners : listeners[l].open <=> l \in Registered

\* C10: once the loop of a listener has ended on an accept / read error
\* that no stop caused, the listener is closed and no key names it.
C10_SessionDestroyedOnLoopError ==
  \A l \in DOMAIN listeners :
    (loop[l].pc = "exited" /\ loop[l].err = "error") =>
      /\ ~listeners[l].open
      /\ l \notin Registered

\* the call a step of caller p belongs to
StepCall(p) == IF pc[p] = "idle" THEN op'[p] ELSE op[p]

\* the sessions of one protocol: its listeners / sockets and their loops
Sessions(proto) ==
  [l \in {x \in DOMAIN listeners : listeners[x].proto = proto} |->
     <<listeners[l], loop[l]>>]

\* C13: a step of StartTCPForward / StopTCPForward leaves the UDP map, the
\* answer of IsUDPRunning for every listen address and port, and every UDP
\* socket and loop as they were; a step of StartUDPForward / StopUDPForward
\* leaves the TCP map, the answer of IsTCPRunning and every TCP listener and
\* loop as they were.
C13_KeySpacesIndependent ==
  [][\A p \in Callers :
      pc'[p] # pc[p] =>
        /\ StepCall(p).name \in {"StartTCPForward", "StopTCPForward"} =>
             /\ udpListeners' = udpListeners
             /\ Sessions("udp")' = Sessions("udp")
             /\ \A a \in ListenAddrs, n \in ListenPorts :
                  UDPRunning(a, n)' = UDPRunning(a, n)
        /\ StepCall(p).name \in {"StartUDPForward", "StopUDPForward"} =>
             /\ tcpListeners' = tcpListeners
             /\ Sessions("tcp")' = Sessions("tcp")
             /\ \A a \in ListenAddrs, n \in ListenPorts :
                  TCPRunning(a, n)' = TCPRunning(a, n)]_vars

\* a TCP listener and a UDP socket of one listen address and port are
\* registered and open at once, and a Start call has just returned ok
C13_Witness ==
  \E a \in ListenAddrs, n \in ListenPorts :
    /\ TCPRunning(a, n) /\ UDPRunning(a, n)
    /\ listeners[tcpListeners[TCPKey(a, n)]].open
    /\ listeners[udpListeners[UDPKey(a, n)]].open
    /\ \E p \in Callers :
         /\ Returning(p, "ok") /\ IsStart(p)
         /\ op[p].listenAddr = a /\ op[p].listenPort = n

\* C14: every step of an IsTCPRunning / IsUDPRunning call leaves both maps,
\* every listener / socket, every loop and every spawned task as they were,
\* and the call returns true exactly when its key is in the map of its
\* protocol.
C14_LookupsArePure ==
  [][\A p \in Callers :
      (pc'[p] # pc[p] /\ StepCall(p).name \in {"IsTCPRunning", "IsUDPRunning"}) =>
        /\ UNCHANGED <<tcpListeners, udpListeners, listeners, loop, tasks>>
        /\ pc[p] = "idle" =>
             \A o \in {StepCall(p)} :
               /\ pc'[p] = "ret"
               /\ res'[p] \in {"true", "false"}
               /\ o.name = "IsTCPRunning" =>
                    (res'[p] = "true" <=>
                       TCPKey(o.listenAddr, o.listenPort) \in DOMAIN tcpListeners)
               /\ o.name = "IsUDPRunning" =>
                    (res'[p] = "true" <=>
                       UDPKey(o.listenAddr, o.listenPort) \in DOMAIN udpListeners)]_vars

\* IsTCPRunning answers true for a registered key whose listener a failed
\* Close has left closed, while the other protocol has a session as well
C14_Witness ==
  \E p \in Callers :
    /\ Returning(p, "true")
    /\ op[p].name = "IsTCPRunning"
    /\ ~listeners[tcpListeners[CallKey(p)]].open
    /\ udpListeners # << >>

\* ------------------------------------------------------- session keys
\* listen addresses and ports as a request may carry them: the handlers pass
\* the strings of the query to the Forwarder as they are
KeyAddrs == {"", "0.0.0.0", "[::1]", "[:"}
KeyPorts == {"80", "1]:80"}
KeyRequests ==
  [name : {"IsTCPRunning", "IsUDPRunning"},
   listenAddr : KeyAddrs, listenPort : KeyPorts,
   targetAddr : {""}, targetPort : {""}]

\* every caller holds a request whose key is not computed yet
KeyInit ==
  /\ tcpListeners = << >>
  /\ udpListeners = << >>
  /\ mu = 0
  /\ listeners = << >>
  /\ loop = << >>
  /\ tasks = << >>
  /\ pc = [p \in Callers |-> "call"]
  /\ op \in [Callers -> KeyRequests]
  /\ res = [p \in Callers |-> "none"]
  /\ lid = [p \in Callers |-> 0]
  /\ io = [p \in Callers |-> {}]
  /\ pre = [p \in Callers |-> NoPre]
  /\ AppInit

\* key := fmt.Sprintf("tcp:%s:%s", listenAddr, listenPort)
KeyOf(p) ==
  /\ pc[p] = "call"
  /\ pc' = [pc EXCEPT ![p] = "key"]
  /\ res' = [res EXCEPT ![p] = CallKey(p)]
  /\ UNCHANGED <<tcpListeners, udpListeners, mu, listeners, loop, tasks,
                 op, lid, io, pre, app>>

KeyNext == \E p \in Callers : KeyOf(p)

SpecKey == KeyInit /\ [][KeyNext]_vars

\* C15: two requests of one protocol have the same key exactly when their
\* listen addresses are the same string and their listen ports are the same
\* string.
C15_KeyIsInjective ==
  \A p, q \in Callers :
    (pc[p] = "key" /\ pc[q] = "key" /\ op[p].name = op[q].name) =>
      (res[p] = res[q] <=>
         (op[p].listenAddr = op[q].listenAddr
            /\ op[p].listenPort = op[q].listenPort))

\* C11: a TCP listener that a Stop has closed and taken out of the map leads
\* to the end of its accept loop (or to the listener being forgotten with
\* it), and no step accepts a connection from a closed listener.
C11_AcceptLoopExitsAfterStop ==
  /\ \A l \in 1..MaxListeners :
       (l \in DOMAIN listeners /\ ~listeners[l].open /\ l \notin Registered)
         ~> (l \notin DOMAIN listeners \/ loop[l].pc = "exited")
  /\ [][\A t \in DOMAIN tasks' :
          t \notin DOMAIN tasks => listeners[tasks'[t].of].open]_vars

\* the Stop call is about to return ok and the loop of the listener it
\* closed has ended on the error of the closed listener
C11_Witness ==
  \E p \in Callers :
    /\ Returning(p, "ok") /\ op[p].name = "StopTCPForward"
    /\ lid[p] \in DOMAIN listeners
    /\ ~listeners[lid[p]].open
    /\ loop[lid[p]] = At("exited", "closed")

\* C12: a step of StopTCPForward leaves every connection task and every
\* loop position as it was; a Stop call that is inside Close or about to
\* return can take its next step whatever the loop and the tasks are
\* doing; and a copy goroutine ends only when the client or the target of
\* its own connection has closed, a relaying connection task only when both
\* of its copy goroutines have ended.
C12_StopLeavesConnectionsAlone ==
  [][/\ \A p \in Callers :
          (pc'[p] # pc[p] /\ StepCall(p).name = "StopTCPForward") =>
            /\ tasks' = tasks
            /\ \A l \in DOMAIN loop' : loop'[l] = loop[l]
     /\ \A p \in Callers :
          op[p].name = "StopTCPForward" =>
            /\ pc[p] = "close" => ENABLED StopTCPClose(p)
            /\ pc[p] = "ret" => ENABLED Unlock(p)
     /\ \A t \in DOMAIN tasks :
          /\ (tasks[t].a # "done" /\ tasks'[t].a = "done") =>
               (tasks[t].cend \/ tasks[t].tend)
          /\ (tasks[t].b # "done" /\ tasks'[t].b = "done") =>
               (tasks[t].cend \/ tasks[t].tend)
          /\ (tasks[t].st = "pump" /\ tasks'[t].st = "closed") =>
               (tasks[t].a = "done" /\ tasks[t].b = "done")]_vars

\* the Stop call has returned ok, the accept loop has not seen the close
\* yet, and a connection the listener accepted is relaying: one goroutine
\* holds bytes it has read, the client has received an echo
C12_Witness ==
  \E t \in DOMAIN tasks :
    /\ ~listeners[tasks[t].of].open
    /\ tasks[t].of \notin Registered
    /\ \A p \in Callers : pc[p] = "idle"
    /\ loop[tasks[t].of].pc = "accept"
    /\ tasks[t].st = "pump"
    /\ tasks[t].a = "write"
    /\ tasks[t].cr # << >>

\* C16: a listener / socket gets the target of the Start call that binds
\* it and keeps it as long as it exists, every connection or reply task has
\* the target of the listener / socket it came from, and its target never
\* changes.
C16_TargetFixedAtStart ==
  [][/\ \A l \in DOMAIN listeners' :
          IF l \in DOMAIN listeners
          THEN /\ listeners'[l].targetAddr = listeners[l].targetAddr
               /\ listeners'[l].targetPort = listeners[l].targetPort
          ELSE \E p \in Callers :
                 /\ pc[p] = "listen" /\ lid'[p] = l
                 /\ listeners'[l].targetAddr = op[p].targetAddr
                 /\ listeners'[l].targetPort = op[p].targetPort
     /\ \A t \in DOMAIN tasks' :
          tasks'[t].target = <<listeners'[tasks'[t].of].targetAddr,
                               listeners'[tasks'[t].of].targetPort>>
     /\ \A t \in DOMAIN tasks' :
          t \notin DOMAIN tasks =>
            /\ Len(tasks') = Len(tasks) + 1
            /\ \A u \in DOMAIN tasks : tasks'[u].target = tasks[u].target]_vars

\* a Start naming another target is refused as already running while a
\* connection of the running session exists, and the session and its
\* connection still have the first target
C16_Witness ==
  \E p \in Callers :
    /\ Returning(p, "AlreadyRunning")
    /\ op[p].name = "StartTCPForward"
    /\ listeners[tcpListeners[CallKey(p)]].targetAddr # op[p].targetAddr
    /\ \E t \in DOMAIN tasks :
         /\ tasks[t].of = tcpListeners[CallKey(p)]
         /\ tasks[t].target[1] # op[p].targetAddr

\* C17: the step in which the dial of a connection task fails closes that
\* task and its accepted connection before any byte was relayed, and leaves
\* both maps, every listener, every loop and every other connection task as
\* they were; a closed task never takes another step.
C17_DialFailureIsLocal ==
  [][\A t \in DOMAIN tasks :
      /\ (tasks[t].st = "dial" /\ tasks'[t].st = "closed") =>
           /\ tasks' = [tasks EXCEPT ![t].st = "closed"]
           /\ tasks[t].a = "idle" /\ tasks[t].b = "idle"
           /\ tasks[t].tr = << >> /\ tasks[t].cr = << >>
           /\ UNCHANGED <<tcpListeners, udpListeners, listeners, loop>>
      /\ tasks[t].st = "closed" => tasks'[t] = tasks[t]]_vars

\* one connection was closed because its dial failed, while the relay is
\* registered, its listener open, its loop accepting, and another
\* connection is relaying
C17_Witness ==
  \E t, u \in DOMAIN tasks :
    /\ tasks[t].st = "closed" /\ tasks[t].a = "idle"
    /\ tasks[u].st = "pump" /\ tasks[u].a = "write"
    /\ tasks[u].of = tasks[t].of
    /\ tasks[t].of \in Registered
    /\ listeners[tasks[t].of].open
    /\ loop[tasks[t].of].pc = "accept"

\* C18: a relayed connection one of whose copy goroutines has ended leads to
\* the connection task having returned, that is, to both of its connections
\* being closed and both goroutines being done.
C18_BothClosedOnFirstEnd ==
  \A t \in 1..NumConns :
    (tasks[t].st = "pump" /\ (tasks[t].a = "done" \/ tasks[t].b = "done"))
      ~> (tasks[t].st = "closed")

\* the connections whose client wrote the bytes of sequence s
WrittenBy(s) == {s[i][1] : i \in DOMAIN s}

\* C19: whatever has been written to the target connection of a task, is
\* held by its copy goroutines, waits to be read from its target or has
\* been written back to its client, was written by the client of that task.
C19_ClientsAreIsolated ==
  \A t \in DOMAIN tasks :
    /\ WrittenBy(tasks[t].tr) \subseteq {t}
    /\ WrittenBy(tasks[t].cr) \subseteq {t}
    /\ WrittenBy(tasks[t].abuf) \subseteq {t}
    /\ WrittenBy(tasks[t].ts) \subseteq {t}
    /\ WrittenBy(tasks[t].bbuf) \subseteq {t}

\* two clients are relayed at once: the byte of each has reached its own
\* target connection and one of them has its echo back
C19_Witness ==
  \E t, u \in DOMAIN tasks :
    /\ t # u
    /\ tasks[t].st = "pump" /\ tasks[u].st = "pump"
    /\ tasks[t].tr = <<(<<t, 1>>)>>
    /\ tasks[u].tr = <<(<<u, 1>>)>>
    /\ tasks[t].cr = <<(<<t, 1>>)>>

IsPrefix(s, r) == Len(s) <= Len(r) /\ SubSeq(r, 1, Len(s)) = s

\* the bytes the client of task t has written, in order
Sent(t) == [i \in 1..tasks[t].sent |-> <<t, i>>]

\* the bytes the src -> dst goroutine of task t has read from the client
ReadFromClient(t) == SubSeq(Sent(t), 1, tasks[t].sent - Len(tasks[t].cs))

\* the bytes the dst -> src goroutine of task t has read from the target
ReadFromTarget(t) ==
  SubSeq(tasks[t].tr, 1, tasks[t].echoed - Len(tasks[t].ts))

\* C20: in each direction of a relayed connection the bytes written to the
\* destination are a prefix of the bytes read from the source, and they are
\* all of them whenever the copy goroutine is between a Write and the next
\* Read; with the goroutine holding a chunk, written bytes and chunk are the
\* bytes read. So what the client of an echo target has got back is a
\* prefix of what it wrote.
C20_PumpPreservesBytes ==
  \A t \in DOMAIN tasks :
    /\ IsPrefix(tasks[t].tr, ReadFromClient(t))
    /\ tasks[t].a \in {"idle", "read"} => tasks[t].tr = ReadFromClient(t)
    /\ tasks[t].a = "write" => tasks[t].tr \o tasks[t].abuf = ReadFromClient(t)
    /\ IsPrefix(tasks[t].cr, ReadFromTarget(t))
    /\ tasks[t].b \in {"idle", "read"} => tasks[t].cr = ReadFromTarget(t)
    /\ tasks[t].b = "write" => tasks[t].cr \o tasks[t].bbuf = ReadFromTarget(t)
    /\ IsPrefix(tasks[t].cr, Sent(t))

\* a client has written MaxSend bytes and has got all of them back from the
\* echo target
C20_Witness ==
  \E t \in DOMAIN tasks :
    /\ tasks[t].sent = MaxSend
    /\ tasks[t].cr = Sent(t)
    /\ tasks[t].tr = Sent(t)

\* C21: a connection that is relaying when a Stop has closed the listener
\* of its relay and taken it out of the map leads to the connection task
\* having returned: both copy goroutines done, both connections closed.
C21_StoppedConnectionTerminates ==
  \A t \in 1..NumConns :
    (/\ tasks[t].st = "pump"
     /\ ~listeners[tasks[t].of].open
     /\ tasks[t].of \notin Registered)
      ~> (tasks[t].st = "closed")

\* C25: the loop of a TCP listener moves only from Accept to the handling
\* of a temporary error and back, or from Accept to its end on another
\* error; a temporary error leaves the map, the listener and the tasks as
\* they were and leads to the next Accept; an ended loop stays ended.
C25_LoopEndsOnlyOnFatalAcceptError ==
  /\ [][\A l \in DOMAIN listeners :
          (listeners[l].proto = "tcp" /\ l \in DOMAIN loop' /\ loop'[l] # loop[l]) =>
            \/ /\ loop[l].pc = "accept"
               /\ loop'[l] = At("temporary", "none")
               /\ listeners[l].open
               /\ UNCHANGED <<tcpListeners, listeners, tasks>>
            \/ /\ loop[l].pc = "temporary"
               /\ loop'[l] = At("accept", "none")
               /\ UNCHANGED <<tcpListeners, listeners, tasks>>
            \/ /\ loop[l].pc = "accept"
               /\ loop'[l].pc = "exited"
               /\ loop'[l].err \in {"error", "closed"}]_vars
  /\ \A l \in 1..MaxListeners :
       (l \in DOMAIN loop /\ loop[l].pc = "temporary")
         ~> (l \notin DOMAIN loop \/ loop[l].pc = "accept")

\* the loop of a registered, open listener that has accepted a connection
\* is handling a temporary error
C25_Witness ==
  \E l \in DOMAIN listeners :
    /\ loop[l].pc = "temporary"
    /\ listeners[l].open
    /\ l \in Registered
    /\ \E t \in DOMAIN tasks : tasks[t].of = l

\* the loop of listener l has ended although nothing had closed the listener
SilentlyStopped(l) ==
  loop[l].pc = "exited" /\ loop[l].err \in {"error", "resolve"}

C26_TargetResolvedAtStart ==
  \A l \in Range(udpListeners) :
    /\ loop[l].pc # "resolve"
    /\ loop[l] # At("exited", "resolve")

\* ------------------------------------------------------------- ports
\* a Start call that has taken the lock of an empty registry and found its
\* key free, with ports as a request may carry them
PortInputs == {"80", "0", "65536", "http", "abc"}
PortArgs ==
  [name : {"StartTCPForward", "StartUDPForward"},
   listenAddr : {StreamAddr}, listenPort : PortInputs,
   targetAddr : {"10.0.0.1"}, targetPort : PortInputs]

PortInit ==
  \E p \in Callers, o \in PortArgs :
    /\ tcpListeners = << >>
    /\ udpListeners = << >>
    /\ mu = p
    /\ listeners = << >>
    /\ loop = << >>
    /\ tasks = << >>
    /\ pc = [q \in Callers |->
               IF q # p THEN "idle"
               ELSE IF o.name = "StartTCPForward" THEN "listen" ELSE "resolve"]
    /\ op = [q \in Callers |-> IF q = p THEN o ELSE NoOp]
    /\ res = [q \in Callers |-> "none"]
    /\ lid = [q \in Callers |-> 0]
    /\ io = [q \in Callers |-> {}]
    /\ pre = [q \in Callers |-> NoPre]
    /\ AppInit

PortNext ==
  \/ \E p \in Callers : StartTCPListen(p)
  \/ \E p \in Callers : StartUDPResolve(p)
  \/ \E p \in Callers : StartUDPListen(p)
  \/ \E p \in Callers : Unlock(p)
  \/ \E l \in DOMAIN listeners : handleTCPForward(l)
  \/ \E l \in DOMAIN listeners : handleUDPForward(l)

SpecPorts == PortInit /\ [][PortNext]_vars

\* C23: a Start call returns ok, and a session is registered, only with a
\* listen port and a target port that are decimal numbers in 1..65535.
C23_PortsAreValidated ==
  /\ \A p \in Callers :
       (Returning(p, "ok") /\ IsStart(p)) =>
         /\ op[p].listenPort \in DOMAIN PortNumber
         /\ PortNumber[op[p].listenPort] \in 1..65535
         /\ op[p].targetPort \in DOMAIN PortNumber
         /\ PortNumber[op[p].targetPort] \in 1..65535
  /\ \A l \in Registered :
       /\ listeners[l].targetPort \in DOMAIN PortNumber
       /\ PortNumber[listeners[l].targetPort] \in 1..65535

\* C27: every step of the receive loop that reads a datagram from the
\* listening socket holds exactly that datagram and writes nothing; the
\* step that follows is its one WriteToUDP, which either fails and writes
\* nothing or writes exactly the payload that was read, through the same
\* socket, addressed to the target of the Session; then the loop holds no
\* datagram any more. A reply task is started with an empty buffer and a
\* socket nothing was written to.
C27_RequestForwardedOnce ==
  [][\A l \in DOMAIN listeners \cap DOMAIN listeners' :
       listeners[l].proto = "udp" =>
         /\ (loop[l].pc = "read" /\ loop'[l].pc = "write") =>
               /\ loop'[l].dgram = Head(listeners[l].inbox)
               /\ listeners'[l].inbox = Tail(listeners[l].inbox)
               /\ listeners'[l].out = listeners[l].out
         /\ (loop[l].pc = "write" /\ loop'[l] # loop[l]) =>
               /\ loop'[l] = At("read", "none")
               /\ \/ listeners'[l].out = listeners[l].out /\ tasks' = tasks
                  \/ /\ listeners'[l].out =
                          Append(listeners[l].out,
                                 [to |-> <<listeners[l].targetAddr,
                                           listeners[l].targetPort>>,
                                  payload |-> loop[l].dgram.payload])
                     /\ Len(tasks') = Len(tasks) + 1
                     /\ tasks'[Len(tasks')].rbuf = << >>
         /\ (loop[l].pc = "write" /\ loop'[l] = loop[l]) =>
               loop'[l].dgram = loop[l].dgram
    ]_vars

\* the datagram of a client was written through the listening socket to
\* the target
C27_Witness ==
  \E l \in DOMAIN listeners :
    /\ listeners[l].proto = "udp"
    /\ listeners[l].out # << >>
    /\ listeners[l].out[1].to = TargetOf(l)
    /\ listeners[l].out[1].payload \in {<<c, 1>> : c \in Clients}
    /\ loop[l].pc = "read"
\* C28: a reply task is started only by the step of the receive loop that
\* forwarded a datagram, one task for that step, and it holds the address
\* that datagram came from; the address never changes afterwards. A task
\* reads its transient socket at most once: after the read it only writes
\* and returns. Its write goes through the listening socket of its relay
\* and is addressed to the address the task holds, with the payload it read.
C28_ReplyGoesToCapturedSender ==
  [][/\ \A t \in DOMAIN tasks :
          /\ t \in DOMAIN tasks'
          /\ tasks'[t].clientAddr = tasks[t].clientAddr
          /\ tasks'[t].of = tasks[t].of
          /\ tasks[t].st = "dial" => tasks'[t].st \in {"dial", "read", "done"}
          /\ tasks[t].st = "read" => tasks'[t].st \in {"read", "write", "done"}
          /\ tasks[t].st = "write" => tasks'[t].st \in {"write", "done"}
          /\ tasks[t].st = "done" => tasks'[t] = tasks[t]
          /\ (tasks[t].st = "read" /\ tasks'[t].st = "write") =>
                /\ tasks[t].inbox # << >>
                /\ tasks'[t].rbuf = Head(tasks[t].inbox).payload
          /\ (tasks[t].st = "write" /\ tasks'[t].st = "done") =>
                LET l == tasks[t].of IN
                \/ listeners' = listeners
                \/ listeners' = [listeners EXCEPT ![l].out =
                                   Append(@, [to |-> tasks[t].clientAddr,
                                              payload |-> tasks[t].rbuf])]
     /\ tasks' # tasks /\ Len(tasks') # Len(tasks) =>
          \E l \in DOMAIN listeners :
            /\ loop[l].pc = "write"
            /\ loop'[l].pc = "read"
            /\ listeners'[l].out = Append(listeners[l].out, Forwarded(l))
            /\ Len(tasks') = Len(tasks) + 1
            /\ tasks'[Len(tasks')].of = l
            /\ tasks'[Len(tasks')].clientAddr = loop[l].dgram.from
            /\ tasks'[Len(tasks')].st = "dial"
    ]_vars

\* the relay has forwarded the datagrams of two clients, and the task of
\* the first one has read a datagram and written it back to the first client
C28_Witness ==
  /\ Len(tasks) = 2
  /\ tasks[1].clientAddr \in Clients
  /\ tasks[2].clientAddr \in Clients
  /\ tasks[1].clientAddr # tasks[2].clientAddr
  /\ tasks[1].st = "done"
  /\ tasks[1].rbuf # << >>
  /\ \E k \in 1..Len(listeners[tasks[1].of].out) :
       listeners[tasks[1].of].out[k] =
         [to |-> tasks[1].clientAddr, payload |-> tasks[1].rbuf]
\* the receive loop of socket l has returned
LoopGone(l) == l \in DOMAIN listeners => loop[l].pc = "exited"

\* C30: once the socket of a datagram relay is closed, which is what a
\* successful Stop does, its receive loop eventually returns. No step of a
\* Stop and no step of the loop changes or waits for a reply task. A reply
\* task that writes while the listening socket is closed changes nothing
\* but itself: it returns, and the socket, the loop and the registry are as
\* they were.
C30_LoopExitsAfterStop ==
  /\ \A l \in 1..MaxListeners :
       (l \in DOMAIN listeners /\ listeners[l].proto = "udp" /\ ~listeners[l].open)
         ~> LoopGone(l)
  /\ [][/\ \A p \in Callers :
             (IsStop(p) \/ pc[p] = "idle") /\ pc'[p] # pc[p] =>
               \A t \in DOMAIN tasks : t \in DOMAIN tasks' /\ tasks'[t] = tasks[t]
        /\ \A l \in DOMAIN listeners :
             (l \notin DOMAIN listeners' \/ loop'[l] # loop[l]) =>
               \A t \in DOMAIN tasks : t \in DOMAIN tasks' /\ tasks'[t] = tasks[t]
        /\ \A t \in DOMAIN tasks :
             (/\ tasks[t].of \in DOMAIN listeners
              /\ ~listeners[tasks[t].of].open
              /\ tasks[t].st = "write"
              /\ tasks'[t] # tasks[t]) =>
               /\ tasks'[t].st = "done"
               /\ UNCHANGED <<listeners, loop, tcpListeners, udpListeners>>
       ]_vars

\* a Stop has returned nil and the loop has returned on the closed socket
\* while one reply task is still waiting in its read and another one, whose
\* write failed on the closed socket, has returned
C30_Witness ==
  /\ \E p \in Callers : IsStop(p) /\ Returning(p, "ok")
  /\ udpListeners = << >>
  /\ Len(tasks) = 2
  /\ tasks[1].st = "read"
  /\ loop[tasks[1].of].pc = "exited"
  /\ loop[tasks[1].of].err = "closed"
  /\ tasks[2].st = "done"
  /\ tasks[2].rbuf # << >>
  /\ \A k \in 1..Len(listeners[tasks[2].of].out) :
       listeners[tasks[2].of].out[k].payload # tasks[2].rbuf
\* the datagrams the echo service has answered to socket l
Echoes(l) == {k \in ToTarget(l) : k <= listeners[l].echoed}

\* the relay of DatagramInit is up and nothing has failed: the socket is
\* open and registered, the loop runs, every datagram that was read was
\* forwarded, no Dial and no Read of a reply task has failed, and the
\* target has sent nothing but its echoes
EchoRelayHealthy ==
  /\ 1 \in DOMAIN listeners
  /\ listeners[1].open
  /\ 1 \in Range(udpListeners)
  /\ loop[1].pc # "exited"
  /\ Cardinality(ToTarget(1)) + (IF loop[1].pc = "write" THEN 1 ELSE 0)
       = listeners[1].nsent + Cardinality(Echoes(1)) - Len(listeners[1].inbox)
  /\ \A t \in DOMAIN tasks :
       /\ ~tasks[t].rerr
       /\ tasks[t].st = "done" => tasks[t].rbuf # << >>
       /\ tasks[t].inbox = << >> \/ Head(tasks[t].inbox).payload[1] \in Clients
       /\ tasks[t].rbuf = << >> \/ tasks[t].rbuf[1] \in Clients

\* only this client has sent datagrams to the relay
SingleClient(c) ==
  /\ \A i \in 1..Len(listeners[1].inbox) :
       listeners[1].inbox[i].payload[1] = c
  /\ loop[1].dgram = NoDatagram \/ loop[1].dgram.payload[1] = c
  /\ \A k \in 1..Len(listeners[1].out) : listeners[1].out[k].payload[1] = c

\* the relay has written the n-th datagram of client c back to c
Answered(c, n) ==
  \E k \in 1..Len(listeners[1].out) :
    listeners[1].out[k] = [to |-> c, payload |-> <<c, n>>]

C29_ReplyTasksEnd ==
  \A t \in 1..MaxReplies :
    (t \in DOMAIN tasks) ~> (t \in DOMAIN tasks /\ tasks[t].st = "done")
\* C31: a StartTCPForward is refused as AlreadyRunning only while its key is
\* registered, so after a Stop has removed the key the Start goes on to
\* bind, and when it returns nil the key names a listener with the target
\* of this Start. Every connection task is created with the target of the
\* listener that accepted it, and neither its target nor its listener ever
\* changes afterwards: stopping and starting again switches no connection.
C31_RetargetByStopStart ==
  [][/\ \A p \in Callers :
          /\ (pc[p] = "idle" /\ StepCall(p).name = "StartTCPForward"
                /\ pc'[p] = "ret" /\ res'[p] = "AlreadyRunning")
               => TCPKey(StepCall(p).listenAddr, StepCall(p).listenPort)
                    \in DOMAIN tcpListeners
          /\ (op[p].name = "StartTCPForward" /\ pc[p] # "ret"
                /\ pc'[p] = "ret" /\ res'[p] = "ok")
               => /\ CallKey(p) \in DOMAIN tcpListeners'
                  /\ listeners'[tcpListeners'[CallKey(p)]].open
                  /\ listeners'[tcpListeners'[CallKey(p)]].targetAddr = op[p].targetAddr
                  /\ listeners'[tcpListeners'[CallKey(p)]].targetPort = op[p].targetPort
     /\ \A t \in DOMAIN tasks :
          /\ t \in DOMAIN tasks'
          /\ tasks'[t].target = tasks[t].target
          /\ tasks'[t].of = tasks[t].of
          /\ listeners'[tasks'[t].of].key = listeners[tasks[t].of].key
          /\ TargetOf(tasks[t].of) = tasks[t].target
     /\ \A t \in DOMAIN tasks' \ DOMAIN tasks :
          /\ tasks'[t].of \in DOMAIN listeners
          /\ listeners[tasks'[t].of].open
          /\ loop[tasks'[t].of].pc = "accept"
          /\ tasks'[t].target = TargetOf(tasks'[t].of)
    ]_vars

\* the relay was stopped and started again with another target: the
\* connection accepted before the stop has written to the old target and
\* the connection accepted by the new session to the new one
C31_Witness ==
  /\ Len(tasks) = 2
  /\ ~listeners[tasks[1].of].open
  /\ listeners[tasks[1].of].key \in DOMAIN tcpListeners
  /\ tcpListeners[listeners[tasks[1].of].key] = tasks[2].of
  /\ tasks[1].target # tasks[2].target
  /\ tasks[1].st = "pump"
  /\ tasks[2].st = "pump"
  /\ tasks[1].tr # << >>
  /\ tasks[2].tr # << >>
\* C32: the receive loop treats a datagram from the target address like any
\* other: it reads it when it is the next one at the listening socket, and
\* the write that follows either fails or sends its payload to the target
\* again and starts a reply task whose client address is the target.
C32_TargetDatagramsAreForwarded ==
  [][\A l \in DOMAIN listeners \cap DOMAIN listeners' :
       /\ (/\ listeners[l].proto = "udp"
           /\ loop[l].pc = "read"
           /\ loop'[l].pc = "write"
           /\ Head(listeners[l].inbox).from = TargetOf(l))
            => loop'[l].dgram.from = TargetOf(l)
       /\ (/\ listeners[l].proto = "udp"
           /\ loop[l].pc = "write"
           /\ loop[l].dgram.from = TargetOf(l)
           /\ loop'[l].pc = "read"
           /\ listeners'[l].out # listeners[l].out)
            => /\ listeners'[l].out[Len(listeners'[l].out)] =
                    [to |-> TargetOf(l), payload |-> loop[l].dgram.payload]
               /\ Len(tasks') = Len(tasks) + 1
               /\ tasks'[Len(tasks')].of = l
               /\ tasks'[Len(tasks')].clientAddr = TargetOf(l)
               /\ tasks'[Len(tasks')].st = "dial"
    ]_vars

\* the answer of the echo service to a forwarded request was read from the
\* listening socket and sent to the target a second time, and a reply task
\* was started with the target as its client
C32_Witness ==
  \E l \in DOMAIN listeners :
    /\ listeners[l].proto = "udp"
    /\ Len(listeners[l].out) = 2
    /\ listeners[l].out[1].to = TargetOf(l)
    /\ listeners[l].out[2] = listeners[l].out[1]
    /\ listeners[l].nsent = 1
    /\ Len(tasks) = 2
    /\ tasks[2].of = l
    /\ tasks[2].clientAddr = TargetOf(l)
\* C37: no two templates of the template list have the same name.
C37_TemplateNamesUnique ==
  \A i \in DOMAIN templates : \A j \in DOMAIN templates :
    i # j => templates[i].name # templates[j].name

\* no entry occurs twice in the list
NoDuplicates(list) ==
  \A i \in DOMAIN list : \A j \in DOMAIN list : i # j => list[i] # list[j]

\* C38: when apiSaveAsTemplate works on a template that exists and whose
\* rule IDs are pairwise different, they are pairwise different afterwards,
\* and the IDs it had are still there, in front and in their order.
C38_SaveAsTemplateAddsNoDuplicate ==
  [][\A p \in Callers :
       (req[p] = NoRequest /\ req'[p].api = "apiSaveAsTemplate") =>
         \A i \in DOMAIN templates :
           /\ i \in DOMAIN templates'
           /\ IsPrefix(templates[i].rules, templates'[i].rules)
           /\ NoDuplicates(templates[i].rules) => NoDuplicates(templates'[i].rules)
    ]_vars

\* a is b with some entries left out
RECURSIVE IsSubsequence(_, _)
IsSubsequence(a, b) ==
  IF a = << >> THEN TRUE
  ELSE IF b = << >> THEN FALSE
  ELSE IF Head(a) = Head(b) THEN IsSubsequence(Tail(a), Tail(b))
  ELSE IsSubsequence(a, Tail(b))

\* C39: the rules of the rule list have pairwise different sequence
\* numbers; a step that adds a rule appends it with a sequence number above
\* those of all the rules there, and a step that deletes rules leaves the
\* remaining rules as they were, sequence number included.
C39_SeqsStayDistinct ==
  [][/\ \A i \in DOMAIN rules' : \A j \in DOMAIN rules' :
          i # j => rules'[i].seq # rules'[j].seq
     /\ \A p \in Callers :
          /\ (req[p] = NoRequest /\ req'[p].api = "apiAddRule") =>
                /\ Len(rules') = Len(rules) + 1
                /\ SubSeq(rules', 1, Len(rules)) = rules
                /\ \A i \in DOMAIN rules : rules'[Len(rules')].seq > rules[i].seq
          /\ (req[p] = NoRequest /\ req'[p].api = "apiDeleteRules") =>
                IsSubsequence(rules', rules)
    ]_vars

\* a rule was deleted and rules were added after it: the list holds the
\* sequence numbers 2 and 3
C39_Witness ==
  /\ Len(rules) = 2
  /\ rules[1].seq = 2
  /\ rules[2].seq = 3
  /\ req = [p \in Callers |-> NoRequest]

\* C40: the first step of apiDeleteRules leaves exactly the rules whose ID
\* is not in ids, in their order; its step on the templates leaves in every
\* template exactly the rule IDs that are not in ids, in their order, and
\* the templates themselves with their names; when the handler answers, no
\* rule and no template entry has an ID of ids.
C40_DeleteRulesRemovesExactlyIds ==
  [][\A p \in Callers :
       /\ (req[p] = NoRequest /\ req'[p].api = "apiDeleteRules") =>
            /\ IsSubsequence(rules', rules)
            /\ \A i \in DOMAIN rules' : rules'[i].id \notin Range(req'[p].ids)
            /\ Len(rules') =
                 Cardinality({i \in DOMAIN rules : rules[i].id \notin Range(req'[p].ids)})
            /\ templates' = templates
       /\ (req[p].at = "templates" /\ req'[p].at # "templates") =>
            /\ rules' = rules
            /\ DOMAIN templates' = DOMAIN templates
            /\ \A i \in DOMAIN templates :
                 /\ templates'[i].name = templates[i].name
                 /\ IsSubsequence(templates'[i].rules, templates[i].rules)
                 /\ Range(templates'[i].rules) \cap Range(req[p].ids) = {}
                 /\ Len(templates'[i].rules) =
                      Cardinality({k \in DOMAIN templates[i].rules :
                                     templates[i].rules[k] \notin Range(req[p].ids)})
       /\ (req[p].api = "apiDeleteRules" /\ req'[p] = NoRequest) =>
            /\ \A i \in DOMAIN rules' : rules'[i].id \notin Range(req[p].ids)
            /\ \A i \in DOMAIN templates' :
                 Range(templates'[i].rules) \cap Range(req[p].ids) = {}
    ]_vars

\* apiDeleteRules has taken an ID out of the rule list and out of a
\* template that keeps another entry, and is about to write the templates
C40_Witness ==
  \E p \in Callers :
    /\ req[p].api = "apiDeleteRules"
    /\ req[p].at = "saveTemplates"
    /\ rules # << >>
    /\ Len(file.templates) = 2
    /\ Len(file.templates[1].rules) = 3
    /\ Len(templates[1].rules) = 2
    /\ Len(templates[2].rules) < Len(file.templates[2].rules)
\* C36: the write of a SaveRules leaves the templates of the data file as
\* they are, and the write of a SaveTemplates leaves its rules as they are,
\* whatever other handlers do in between.
C36_SavesKeepOtherHalf ==
  [][\A p \in Callers :
       /\ (req[p].at = "saveRules" /\ req'[p].at # "saveRules") =>
            file'.templates = file.templates
       /\ (req[p].at = "saveTemplates" /\ req'[p].at # "saveTemplates") =>
            file'.rules = file.rules
    ]_vars
\* C33: no step of apiDeleteRules or apiUpdateRule changes the registry of
\* relays, their listeners or their loops: a relay started for a rule stays
\* registered under the key it was started with when the rule is deleted or
\* its addresses are changed.
C33_RuleEditsLeaveRelays ==
  [][\A p \in Callers :
       (req'[p] # req[p] /\ {req[p].api, req'[p].api}
                              \cap {"apiDeleteRules", "apiUpdateRule"} # {})
         => UNCHANGED <<tcpListeners, udpListeners, listeners, loop, tasks>>
    ]_vars

\* a relay is registered and open under a key that no rule has any more
C33_Witness ==
  /\ req = [p \in Callers |-> NoRequest]
  /\ \E k \in DOMAIN tcpListeners :
       /\ listeners[tcpListeners[k]].open
       /\ loop[tcpListeners[k]].pc = "accept"
       /\ \A i \in DOMAIN rules : TCPKey(rules[i].listenAddr, rules[i].listenPort) # k
  /\ \E k \in DOMAIN udpListeners :
       /\ listeners[udpListeners[k]].open
       /\ \A i \in DOMAIN rules : UDPKey(rules[i].listenAddr, rules[i].listenPort) # k
\* C34: apiStartTemplateForward takes the rule IDs of the template in their
\* order; for each ID that a rule has it calls StartTCPForward and then
\* StartUDPForward with the fields of that rule, whatever the call before
\* returned; it answers only after the last ID; and none of its steps
\* changes a relay that was registered before the step.
C34_StartTemplateTriesEveryRule ==
  [][\A p \in Callers :
       req[p].api = "apiStartTemplateForward" =>
         /\ (req'[p] # req[p] /\ req[p].at = "range") =>
              IF req[p].ids = << >> THEN req'[p] = NoRequest
              ELSE /\ req'[p].ids = Tail(req[p].ids)
                   /\ IF \E i \in DOMAIN rules : rules[i].id = Head(req[p].ids)
                      THEN /\ req'[p].at = "StartTCPForward"
                           /\ req'[p].arg[1].id = Head(req[p].ids)
                           /\ req'[p].arg[1] \in Range(rules)
                      ELSE req'[p].at = "range"
         /\ (req'[p] # req[p] /\ req[p].at = "StartTCPForward") =>
              /\ op[p].name = "StartTCPForward"
              /\ res[p] \in {"ok", "AlreadyRunning", "BindFailed"}
              /\ req'[p] = [req[p] EXCEPT !.at = "StartUDPForward"]
         /\ (req'[p] # req[p] /\ req[p].at = "StartUDPForward") =>
              /\ op[p].name = "StartUDPForward"
              /\ res[p] \in {"ok", "AlreadyRunning", "BindFailed"}
              /\ req'[p] = [req[p] EXCEPT !.at = "range"]
         /\ (pc[p] = "idle" /\ pc'[p] # "idle") =>
              op'[p] = [name |-> req[p].at,
                        listenAddr |-> req[p].arg[1].listenAddr,
                        listenPort |-> req[p].arg[1].listenPort,
                        targetAddr |-> req[p].arg[1].targetAddr,
                        targetPort |-> req[p].arg[1].targetPort]
         /\ \A k \in DOMAIN tcpListeners :
              k \in DOMAIN tcpListeners' /\ tcpListeners'[k] = tcpListeners[k]
         /\ \A k \in DOMAIN udpListeners :
              k \in DOMAIN udpListeners' /\ udpListeners'[k] = udpListeners[k]
         /\ \A l \in DOMAIN listeners :
              l \in DOMAIN listeners' /\ listeners'[l] = listeners[l]
    ]_vars

\* the handler is through the template [r1, r2]: both starts of r1 failed,
\* both starts of r2 succeeded
C34_Witness ==
  \E p \in Callers :
    /\ req[p].api = "apiStartTemplateForward"
    /\ req[p].at = "range"
    /\ req[p].ids = << >>
    /\ req[p].arg # << >>
    /\ \E i, j \in DOMAIN rules :
         /\ i < j
         /\ req[p].arg[1] = rules[j]
         /\ \E t \in DOMAIN templates : templates[t].rules = <<rules[i].id, rules[j].id>>
         /\ TCPKey(rules[i].listenAddr, rules[i].listenPort) \notin DOMAIN tcpListeners
         /\ UDPKey(rules[i].listenAddr, rules[i].listenPort) \notin DOMAIN udpListeners
         /\ TCPKey(rules[j].listenAddr, rules[j].listenPort) \in DOMAIN tcpListeners
         /\ UDPKey(rules[j].listenAddr, rules[j].listenPort) \in DOMAIN udpListeners
         /\ op[p].name = "StartUDPForward"
         /\ res[p] = "ok"
\* C35: when apiStopTemplateForward is through the rule IDs of its template,
\* no relay is registered under the TCP key or the UDP key of a rule that has
\* one of these IDs, unless a Close of its listener failed (the listener is
\* closed and still registered); and no step of the handler adds a relay or
\* changes a relay registered under another key.
C35_StopTemplateStopsItsRules ==
  /\ [](\A p \in Callers :
          (/\ req[p].api = "apiStopTemplateForward"
           /\ req[p].at = "range"
           /\ req[p].ids = << >>
           /\ pc[p] = "idle") =>
            \A i \in DOMAIN rules :
              rules[i].id \in Range(templates[IndexOfName(templates, req[p].name)].rules) =>
                LET tcp == TCPKey(rules[i].listenAddr, rules[i].listenPort)
                    udp == UDPKey(rules[i].listenAddr, rules[i].listenPort) IN
                /\ tcp \in DOMAIN tcpListeners => ~listeners[tcpListeners[tcp]].open
                /\ udp \in DOMAIN udpListeners => ~listeners[udpListeners[udp]].open)
  /\ [][\A p \in Callers :
          req[p].api = "apiStopTemplateForward" =>
            LET named == {rules[i] : i \in {j \in DOMAIN rules :
                            rules[j].id \in Range(templates[IndexOfName(templates, req[p].name)].rules)}} IN
            /\ DOMAIN tcpListeners' \subseteq DOMAIN tcpListeners
            /\ DOMAIN udpListeners' \subseteq DOMAIN udpListeners
            /\ \A k \in DOMAIN tcpListeners :
                 k \notin {TCPKey(r.listenAddr, r.listenPort) : r \in named} =>
                   /\ k \in DOMAIN tcpListeners'
                   /\ tcpListeners'[k] = tcpListeners[k]
                   /\ listeners'[tcpListeners[k]] = listeners[tcpListeners[k]]
            /\ \A k \in DOMAIN udpListeners :
                 k \notin {UDPKey(r.listenAddr, r.listenPort) : r \in named} =>
                   /\ k \in DOMAIN udpListeners'
                   /\ udpListeners'[k] = udpListeners[k]
                   /\ listeners'[udpListeners[k]] = listeners[udpListeners[k]]
       ]_vars

\* the handler is through its template: the TCP relay of a rule of the
\* template was closed and is not registered any more, and the relay of a
\* rule that the template does not name is still registered and open
C35_Witness ==
  \E p \in Callers :
    /\ req[p].api = "apiStopTemplateForward"
    /\ req[p].at = "range"
    /\ req[p].ids = << >>
    /\ pc[p] = "idle"
    /\ LET ids == Range(templates[IndexOfName(templates, req[p].name)].rules) IN
       \E i, j \in DOMAIN rules, l, m \in DOMAIN listeners :
         /\ rules[i].id \in ids
         /\ rules[j].id \notin ids
         /\ listeners[l].key = TCPKey(rules[i].listenAddr, rules[i].listenPort)
         /\ ~listeners[l].open
         /\ listeners[l].key \notin DOMAIN tcpListeners
         /\ listeners[m].key = TCPKey(rules[j].listenAddr, rules[j].listenPort)
         /\ listeners[m].open
         /\ listeners[m].key \in DOMAIN tcpListeners
         /\ listeners[m].key # listeners[l].key
====
